---- MODULE Spec2Model ----
(***************************************************************************)
(* Credential lifecycle of CLI_Proxy: the file-backed token store          *)
(* (stores/file_store.py, stores/base.py) and the AuthManager that drives  *)
(* it (auth/manager.py) together with the vendors' validate / refresh      *)
(* rules (auth/gemini.py, claude.py, openai.py, qwen.py, iflow.py).        *)
(*                                                                         *)
(* Time is the number of seconds since the start of the run.  An optional  *)
(* value is a sequence of length at most one: None is <<>>, a present      *)
(* value x is <<x>>.  A key_id is a sequence of one-character strings, so  *)
(* that the file-name sanitisation is computed character by character.     *)
(***************************************************************************)
EXTENDS Integers, Sequences, FiniteSets, TLC

VARIABLES tokens, metadata, now, last

vars == <<tokens, metadata, now, last>>

\* ---------------------------------------------------------------- bounds
\* Number of clock ticks a behaviour may take.
MaxTicks == 2

\* ------------------------------------------------------ program constants
\* timedelta(seconds=token_response.get("expires_in", 3600))
DefaultExpiresIn == 3600
\* get_valid_token(..., min_expiry: int = 60)
DefaultMinExpiry == 60

\* ---------------------------------------------------------- option values
None == <<>>

Some(x) == <<x>>

Max(a, b) == IF a >= b THEN a ELSE b

\* ------------------------------------------------------------- TokenData
\* auth/base.py TokenData: the fields the lifecycle depends on.
TokenData(access, refresh, type, expires, issued) ==
    [access_token |-> access, refresh_token |-> refresh, token_type |-> type,
     expires_at |-> expires, issued_at |-> issued]

\* TokenData.is_expired at clock t
is_expired(tok, t) ==
    IF tok.expires_at = None THEN FALSE ELSE t >= tok.expires_at[1]

\* TokenData.expires_in at clock t: None, or max(0, expires_at - now)
expires_in(tok, t) ==
    IF tok.expires_at = None THEN None
    ELSE Some(Max(0, tok.expires_at[1] - t))

\* datetime.isoformat(): the timestamp as an ISO-8601 string
isoformat(t) == [iso |-> t]

\* datetime.fromisoformat(): the timestamp an ISO-8601 string denotes
fromisoformat(s) == s.iso

\* BaseStore._serialize_token: the timestamps become ISO strings
_serialize_token(tok) ==
    [tok EXCEPT !.expires_at = IF @ = None THEN None ELSE Some(isoformat(@[1])),
                !.issued_at  = IF @ = None THEN None ELSE Some(isoformat(@[1]))]

\* TokenData.to_dict: asdict, then the timestamps become ISO strings
to_dict(tok) ==
    [tok EXCEPT !.expires_at = IF @ = None THEN None ELSE Some(isoformat(@[1])),
                !.issued_at  = IF @ = None THEN None ELSE Some(isoformat(@[1]))]

\* TokenData.from_dict: ISO strings become timestamps, cls(**data)
from_dict(data) ==
    [data EXCEPT !.expires_at = IF @ = None THEN None ELSE Some(fromisoformat(@[1])),
                 !.issued_at  = IF @ = None THEN None ELSE Some(fromisoformat(@[1]))]

\* deserialisation that reads an absent timestamp as the epoch
_deserialize_token_epoch(data) ==
    [data EXCEPT !.expires_at = IF @ = None THEN Some(0) ELSE Some(fromisoformat(@[1])),
                 !.issued_at  = IF @ = None THEN Some(0) ELSE Some(fromisoformat(@[1]))]

\* BaseStore._deserialize_token: ISO strings become timestamps again
_deserialize_token(data) ==
    [data EXCEPT !.expires_at = IF @ = None THEN None ELSE Some(fromisoformat(@[1])),
                 !.issued_at  = IF @ = None THEN None ELSE Some(fromisoformat(@[1]))]

\* ------------------------------------------------------------ file system
\* A file is missing, holds JSON, or holds bytes that do not parse.
NoFile == [file |-> "none"]

Corrupt == [file |-> "corrupt"]

JsonFile(data) == [file |-> "json", data |-> data]

\* FileStore.initialize creates exactly these provider sub-directories.
StoreDirs == {"gemini", "claude", "codex", "openai", "qwen", "iflow", "vertex"}

\* Characters key_ids are made of here, and the alphanumeric ones among them.
AlnumChars == {"k", "1", "2"}

SafePunct == {".", "_", "-"}

\* "".join(c for c in key_id if c.isalnum() or c in "._-")
safe_key_id(key_id) ==
    SelectSeq(key_id, LAMBDA c : c \in AlnumChars \/ c \in SafePunct)

\* key_ids callers use: two of them sanitise to the same file name
K1 == <<"k", "1">>

K1Slash == <<"k", "/", "1">>

KeyIds == {K1, K1Slash}

FileNames == {safe_key_id(k) : k \in KeyIds}

\* FileStore._get_token_path / _get_metadata_path
_get_token_path(provider, key_id) == <<provider, safe_key_id(key_id)>>

Paths == StoreDirs \X FileNames

\* aiofiles.os.path.exists
exists(fs, path) == path \in DOMAIN fs /\ fs[path] # NoFile

\* os.remove of an existing file
remove(fs, path) == [fs EXCEPT ![path] = NoFile]

\* ------------------------------------------------------------ dictionaries
\* {**a, **b} and dict.update: b's entries win
Merge(a, b) ==
    [f \in (DOMAIN a) \cup (DOMAIN b) |-> IF f \in DOMAIN b THEN b[f] ELSE a[f]]

EmptyDict == [f \in {} |-> None]

\* ------------------------------------------------------------- FileStore
\* The store's two directory trees: fs.tokens and fs.metadata map a path
\* to the file at it.  Every operation returns the trees it leaves, what
\* it returns (token / flag), the exception it raises (exc), and for the
\* AuthManager the token status it saw and the exception it swallowed.
Ok(tk, md) == [tokens |-> tk, metadata |-> md, token |-> None, flag |-> FALSE,
               exc |-> "none", status |-> "none", caught |-> "none"]

\* The metadata record save_token writes when metadata is given
save_metadata_data(provider, key_id, md, t) ==
    Merge([provider |-> provider, key_id |-> key_id,
           created_at |-> isoformat(t), updated_at |-> isoformat(t)], md)

\* save_token that leaves an existing token file as it is
save_token_no_overwrite(fs, provider, key_id, token_data, md, fault, t) ==
    LET path == _get_token_path(provider, key_id) IN
    IF path \notin DOMAIN fs.tokens \/ fault = "open"
    THEN [Ok(fs.tokens, fs.metadata) EXCEPT !.exc = "OSError"]
    ELSE IF fault = "write"
    THEN [Ok([fs.tokens EXCEPT ![path] = Corrupt], fs.metadata)
             EXCEPT !.exc = "OSError"]
    ELSE Ok(IF exists(fs.tokens, path) THEN fs.tokens
            ELSE [fs.tokens EXCEPT ![path] = JsonFile(_serialize_token(token_data))],
            IF md = None THEN fs.metadata
            ELSE [fs.metadata EXCEPT
                    ![path] = JsonFile(save_metadata_data(provider, key_id, md[1], t))])

\* FileStore.save_token.  fault is the I/O failure met while writing the
\* token file: "none", "open" (the file cannot be opened, nothing is
\* written) or "write" (the file was truncated by open(.., "w") and the
\* write failed, leaving bytes that do not parse).
save_token(fs, provider, key_id, token_data, md, fault, t) ==
    LET path == _get_token_path(provider, key_id) IN
    IF path \notin DOMAIN fs.tokens \/ fault = "open"
    THEN [Ok(fs.tokens, fs.metadata) EXCEPT !.exc = "OSError"]
    ELSE IF fault = "write"
    THEN [Ok([fs.tokens EXCEPT ![path] = Corrupt], fs.metadata)
             EXCEPT !.exc = "OSError"]
    ELSE Ok([fs.tokens EXCEPT ![path] = JsonFile(_serialize_token(token_data))],
            IF md = None THEN fs.metadata
            ELSE [fs.metadata EXCEPT
                    ![path] = JsonFile(save_metadata_data(provider, key_id, md[1], t))])

\* FileStore.get_token: a token file that does not parse is removed and
\* StoreError is raised
get_token(fs, provider, key_id) ==
    LET path == _get_token_path(provider, key_id) IN
    IF ~exists(fs.tokens, path) THEN Ok(fs.tokens, fs.metadata)
    ELSE IF fs.tokens[path] = Corrupt
    THEN [Ok(remove(fs.tokens, path), fs.metadata) EXCEPT !.exc = "StoreError"]
    ELSE [Ok(fs.tokens, fs.metadata) EXCEPT
            !.token = Some(_deserialize_token(fs.tokens[path].data))]

\* delete_token that forgets the metadata file
delete_token_keeps_metadata(fs, provider, key_id) ==
    LET path == _get_token_path(provider, key_id)
        deleted == exists(fs.tokens, path)
    IN [Ok(IF deleted THEN remove(fs.tokens, path) ELSE fs.tokens, fs.metadata)
          EXCEPT !.flag = deleted]

\* FileStore.delete_token
delete_token(fs, provider, key_id) ==
    LET path == _get_token_path(provider, key_id)
        deleted == exists(fs.tokens, path)
    IN [Ok(IF deleted THEN remove(fs.tokens, path) ELSE fs.tokens,
           IF exists(fs.metadata, path) THEN remove(fs.metadata, path)
           ELSE fs.metadata)
          EXCEPT !.flag = deleted]

\* update_token_metadata that writes the patch in place of the old record
updated_metadata_replaces(existing, patch, t) ==
    Merge(Merge(patch, [updated_at |-> isoformat(t)]),
          IF "created_at" \in DOMAIN existing
          THEN [created_at |-> existing.created_at]
          ELSE [created_at |-> isoformat(t)])

\* The record update_token_metadata writes
updated_metadata(existing, patch, t) ==
    LET merged == Merge(Merge(existing, patch), [updated_at |-> isoformat(t)])
    IN IF "created_at" \in DOMAIN merged THEN merged
       ELSE Merge(merged, [created_at |-> isoformat(t)])

\* FileStore.update_token_metadata
update_token_metadata(fs, provider, key_id, patch, t) ==
    LET path == _get_token_path(provider, key_id)
        existing == IF exists(fs.metadata, path) /\ fs.metadata[path] # Corrupt
                    THEN fs.metadata[path].data
                    ELSE [provider |-> provider, key_id |-> key_id]
    IN IF path \notin DOMAIN fs.metadata
       THEN [Ok(fs.tokens, fs.metadata) EXCEPT !.exc = "OSError"]
       ELSE Ok(fs.tokens,
               [fs.metadata EXCEPT
                  ![path] = JsonFile(updated_metadata(existing, patch, t))])

\* get_valid_token that also deletes a token that is only about to expire
get_valid_token_deletes_expiring(fs, provider, key_id, min_expiry, t) ==
    LET got == get_token(fs, provider, key_id) IN
    IF got.exc # "none" \/ got.token = None THEN got
    ELSE IF \/ is_expired(got.token[1], t)
            \/ /\ expires_in(got.token[1], t) # None
               /\ expires_in(got.token[1], t)[1] < min_expiry
    THEN [delete_token(fs, provider, key_id) EXCEPT !.flag = FALSE]
    ELSE got

\* BaseStore.get_valid_token
get_valid_token(fs, provider, key_id, min_expiry, t) ==
    LET got == get_token(fs, provider, key_id) IN
    IF got.exc # "none" \/ got.token = None THEN got
    ELSE IF is_expired(got.token[1], t)
    THEN [delete_token(fs, provider, key_id) EXCEPT !.flag = FALSE]
    ELSE IF /\ expires_in(got.token[1], t) # None
            /\ expires_in(got.token[1], t)[1] < min_expiry
    THEN Ok(fs.tokens, fs.metadata)
    ELSE got

\* The entry list_tokens builds for the token file at path: the metadata
\* record (or the basic one), with the token's expiry when it can be read
list_entry(fs, path, t) ==
    LET prov == path[1]
        key_id == path[2]
        mpath == _get_token_path(prov, key_id)
        md == IF exists(fs.metadata, mpath) /\ fs.metadata[mpath] # Corrupt
              THEN fs.metadata[mpath].data
              ELSE [provider |-> prov, key_id |-> key_id]
        got == get_token(fs, prov, key_id)
    IN IF got.token = None THEN md
       ELSE Merge(md,
              [expires_at |-> IF got.token[1].expires_at = None THEN None
                              ELSE Some(isoformat(got.token[1].expires_at[1])),
               expires_in |-> expires_in(got.token[1], t),
               is_expired |-> is_expired(got.token[1], t)])

\* FileStore.list_tokens: one entry per token file of the listed provider
\* directories (all of them when provider is None); reading an entry's
\* token removes a token file that does not parse
list_tokens(fs, provider, t) ==
    LET listed == {path \in DOMAIN fs.tokens :
                     /\ provider = None \/ path[1] = provider[1]
                     /\ exists(fs.tokens, path)}
    IN [entries |-> [path \in listed |-> list_entry(fs, path, t)],
        tokens |-> [path \in DOMAIN fs.tokens |->
                      IF path \in listed /\ fs.tokens[path] = Corrupt
                      THEN NoFile ELSE fs.tokens[path]],
        metadata |-> fs.metadata]

\* The orders in which iterdir / glob may yield a set of files
Orders(S) ==
    { o \in [1..Cardinality(S) -> S] :
        \A i, j \in 1..Cardinality(S) : i # j => o[i] # o[j] }

\* dict.get(field) of a listing entry; a missing field reads as the
\* given falsy value
entry_get(entry, field, missing) ==
    IF field \in DOMAIN entry THEN entry[field] ELSE missing

RECURSIVE cleanup_loop(_, _, _, _, _, _)
\* The loop of cleanup_expired_tokens over the listing, from entry i on:
\* the key looked up is the one the entry's provider / key_id fields name
cleanup_loop(cur, entries, order, i, count, t) ==
    IF i > Len(order) THEN Merge(Ok(cur.tokens, cur.metadata), [count |-> count])
    ELSE LET token_info == entries[order[i]]
             provider == entry_get(token_info, "provider", "")
             key_id == entry_get(token_info, "key_id", <<>>)
         IN IF provider = "" \/ key_id = <<>>
            THEN cleanup_loop(cur, entries, order, i + 1, count, t)
            ELSE LET got == get_token(cur, provider, key_id) IN
                 IF got.exc # "none" THEN Merge(got, [count |-> count])
                 ELSE IF got.token # None /\ is_expired(got.token[1], t)
                 THEN cleanup_loop(delete_token(cur, provider, key_id),
                                   entries, order, i + 1, count + 1, t)
                 ELSE cleanup_loop(cur, entries, order, i + 1, count, t)

\* FileStore.cleanup_expired_tokens: list every provider, then walk the
\* listing in the order the directory scan produced it
cleanup_expired_tokens(fs, order, t) ==
    LET listing == list_tokens(fs, None, t)
    IN cleanup_loop(listing, listing.entries, order, 1, 0, t)

\* --------------------------------------------------------- auth providers
\* AuthManager._initialize_auth_providers: the registered vendors
AuthProviders == {"gemini", "openai", "claude", "qwen", "iflow"}

\* str.lower() on the provider names callers use
lower(name) ==
    CASE name \in {"Gemini", "GEMINI"} -> "gemini"
      [] OTHER -> name

\* AuthManager.get_auth_provider: the vendor registered under the name
get_auth_provider(provider_name) ==
    IF lower(provider_name) \in AuthProviders
    THEN Some(lower(provider_name)) ELSE None

\* What a probe request can end in: an HTTP status, or an exception
ProbeStatuses == {"200", "400", "401", "403", "429", "500"}

ProbeExceptions == {"timeout", "connect_error"}

\* The statuses each vendor's validate_token takes as proof of a valid key
valid_statuses(vendor) ==
    IF vendor = "claude" THEN {"200", "400", "429"} ELSE {"200"}

\* The statuses each vendor's validate_token takes as a rejection
invalid_statuses(vendor) ==
    CASE vendor = "gemini" -> {"403"}
      [] vendor = "iflow" -> {"401", "403"}
      [] OTHER -> {"401"}

\* Strings json.loads parses to a cookie mapping (iFlow access tokens)
JsonStrings == {"{\"sid\": \"1\"}"}

\* validate_token with one rejection status for every vendor
validate_token_one_table(vendor, token_data, probe, t) ==
    IF token_data.access_token = "" THEN "invalid"
    ELSE IF is_expired(token_data, t) THEN "expired"
    ELSE IF vendor = "iflow" /\ token_data.access_token \notin JsonStrings
    THEN "refresh_needed"
    ELSE IF probe \in ProbeExceptions THEN "refresh_needed"
    ELSE IF probe \in valid_statuses(vendor) THEN "valid"
    ELSE IF probe = "401" THEN "invalid"
    ELSE "refresh_needed"

\* <Vendor>Auth.validate_token: local checks first, then the live probe
validate_token(vendor, token_data, probe, t) ==
    IF token_data.access_token = "" THEN "invalid"
    ELSE IF is_expired(token_data, t) THEN "expired"
    ELSE IF vendor = "iflow" /\ token_data.access_token \notin JsonStrings
    THEN "refresh_needed"
    ELSE IF probe \in ProbeExceptions THEN "refresh_needed"
    ELSE IF probe \in valid_statuses(vendor) THEN "valid"
    ELSE IF probe \in invalid_statuses(vendor) THEN "invalid"
    ELSE "refresh_needed"

\* timedelta(days=7) and timedelta(days=1) in seconds
SevenDays == 604800

OneDay == 86400

\* <Vendor>Auth.refresh_token: the API-key vendors re-wrap the string they
\* are given; iFlow re-wraps it with a new expiry window.  None raises.
refresh_token(vendor, refresh, t) ==
    IF vendor = "iflow"
    THEN TokenData(refresh, None, "Cookie",
                   Some(t + (IF refresh \in JsonStrings THEN SevenDays ELSE OneDay)),
                   Some(t))
    ELSE TokenData(refresh, None, "Bearer", None, Some(t))

\* ------------------------------------------------------------ AuthResult
\* AuthResult.success_result
success_result(token_data, provider) ==
    [provider |-> Some(provider), token_data |-> Some(token_data), success |-> TRUE,
     error |-> None, error_code |-> None, auth_url |-> None,
     state |-> None, code_verifier |-> None]

\* AuthResult.error_result
error_result(error, error_code, provider) ==
    [provider |-> Some(provider), token_data |-> None, success |-> FALSE,
     error |-> Some(error), error_code |-> Some(error_code), auth_url |-> None,
     state |-> None, code_verifier |-> None]

\* OAuth redirect result that claims success
oauth_redirect_success(auth_url, state, code_verifier, provider) ==
    [provider |-> Some(provider), token_data |-> None, success |-> TRUE,
     error |-> None, error_code |-> None, auth_url |-> Some(auth_url),
     state |-> Some(state), code_verifier |-> Some(code_verifier)]

\* AuthResult.oauth_redirect
oauth_redirect(auth_url, state, code_verifier, provider) ==
    [provider |-> Some(provider), token_data |-> None, success |-> FALSE,
     error |-> None, error_code |-> None, auth_url |-> Some(auth_url),
     state |-> Some(state), code_verifier |-> Some(code_verifier)]

\* ----------------------------------------------------- vendor authenticate
\* kwargs.get(name): None when the keyword was not passed
kwargs_get(kwargs, name) ==
    IF name \in DOMAIN kwargs THEN Some(kwargs[name]) ELSE None

\* A cookie string is the sequence of its ";"-separated segments; a
\* segment with "=" is <<key, value>>, one without is <<text>>.
\* IFlowAuth._parse_cookie_string keeps the key=value segments, the last
\* value given for a key winning.
_parse_cookie_string(cookie_string) ==
    LET pairs == {i \in 1..Len(cookie_string) : Len(cookie_string[i]) = 2}
        keys == {cookie_string[i][1] : i \in pairs}
        lastOf(k) == CHOOSE i \in pairs :
                       /\ cookie_string[i][1] = k
                       /\ \A j \in pairs : cookie_string[j][1] = k => j <= i
    IN [k \in keys |-> cookie_string[lastOf(k)][2]]

\* json.dumps of a cookie mapping
json_dumps(cookies) ==
    CASE cookies = [sid |-> "1"] -> "{\"sid\": \"1\"}"
      [] OTHER -> "{}"

\* The error_code a vendor's authenticate gives for a missing credential
missing_code(vendor) ==
    IF vendor = "iflow" THEN "missing_cookies" ELSE "missing_api_key"

\* The error_code a vendor's authenticate gives for a status it does not
\* accept
failed_code(vendor) ==
    IF vendor = "iflow" THEN "cookie_validation_failed"
    ELSE "api_key_validation_failed"

\* The statuses a vendor's authenticate accepts
accepted_statuses(vendor) ==
    IF vendor = "claude" THEN {"200", "400", "429"} ELSE {"200"}

\* The credential a vendor's authenticate reads from its kwargs: the API
\* key, or for iFlow the cookies (parsed from cookie_string when no
\* cookies mapping is passed); None when it is missing or empty
credential(vendor, kwargs) ==
    IF vendor = "iflow"
    THEN LET given == kwargs_get(kwargs, "cookies")
             cookie_string == kwargs_get(kwargs, "cookie_string")
             cookies ==
                 IF cookie_string # None /\ cookie_string[1] # <<>>
                    /\ (given = None \/ DOMAIN given[1] = {})
                 THEN Some(_parse_cookie_string(cookie_string[1]))
                 ELSE given
         IN IF cookies = None \/ DOMAIN cookies[1] = {} THEN None
            ELSE Some(json_dumps(cookies[1]))
    ELSE LET api_key == kwargs_get(kwargs, "api_key")
         IN IF api_key = None \/ api_key[1] = "" THEN None ELSE api_key

\* authenticate that accepts status 200 only, whatever the vendor
authenticate_only_200(vendor, kwargs, probe, t) ==
    LET cred == credential(vendor, kwargs) IN
    IF cred = None
    THEN error_result("credential required", missing_code(vendor), vendor)
    ELSE IF probe = "timeout"
    THEN error_result("connection timeout", "connection_timeout", vendor)
    ELSE IF probe \in ProbeExceptions
    THEN error_result("authentication failed", "authentication_failed", vendor)
    ELSE IF probe = "200"
    THEN success_result(
             TokenData(cred[1], None,
                       IF vendor = "iflow" THEN "Cookie" ELSE "Bearer",
                       IF vendor = "iflow" THEN Some(t + SevenDays) ELSE None,
                       Some(t)),
             vendor)
    ELSE error_result("validation failed", failed_code(vendor), vendor)

\* authenticate that hands the credential out as a refresh token too
authenticate_with_refresh(vendor, kwargs, probe, t) ==
    LET cred == credential(vendor, kwargs) IN
    IF cred = None
    THEN error_result("credential required", missing_code(vendor), vendor)
    ELSE IF probe = "timeout"
    THEN error_result("connection timeout", "connection_timeout", vendor)
    ELSE IF probe \in ProbeExceptions
    THEN error_result("authentication failed", "authentication_failed", vendor)
    ELSE IF probe \in accepted_statuses(vendor)
    THEN success_result(
             TokenData(cred[1], cred,
                       IF vendor = "iflow" THEN "Cookie" ELSE "Bearer",
                       IF vendor = "iflow" THEN Some(t + SevenDays) ELSE None,
                       Some(t)),
             vendor)
    ELSE error_result("validation failed", failed_code(vendor), vendor)

\* <Vendor>Auth.authenticate: missing credential, then the live probe
authenticate(vendor, kwargs, probe, t) ==
    LET cred == credential(vendor, kwargs) IN
    IF cred = None
    THEN error_result("credential required", missing_code(vendor), vendor)
    ELSE IF probe = "timeout"
    THEN error_result("connection timeout", "connection_timeout", vendor)
    ELSE IF probe \in ProbeExceptions
    THEN error_result("authentication failed", "authentication_failed", vendor)
    ELSE IF probe \in accepted_statuses(vendor)
    THEN success_result(
             TokenData(cred[1], None,
                       IF vendor = "iflow" THEN "Cookie" ELSE "Bearer",
                       IF vendor = "iflow" THEN Some(t + SevenDays) ELSE None,
                       Some(t)),
             vendor)
    ELSE error_result("validation failed", failed_code(vendor), vendor)

\* ------------------------------------------------------------ vendor OAuth
\* The vendors that override get_auth_url and exchange_code
OAuthVendors == {"gemini", "claude", "openai"}

\* What a vendor method hands back: an AuthResult, or a raised exception
Returned(result) == [result |-> Some(result), exc |-> "none"]

Raised(exc) == [result |-> None, exc |-> exc]

\* A call that hands back no AuthResult and raises nothing
NoResult == [result |-> None, exc |-> "none"]

\* The state value generate_state() hands out with an authorization URL
IssuedState == "st"

\* <Vendor>Auth.get_auth_url; configured says whether the vendor's
\* provider_config is non-empty.  Qwen and iFlow inherit the base method.
get_auth_url(vendor, configured) ==
    IF vendor \notin OAuthVendors THEN Raised("NotImplementedError")
    ELSE IF ~configured
    THEN Returned(error_result("OAuth not configured", "oauth_not_configured", vendor))
    ELSE Returned(oauth_redirect("https://auth?state=st", IssuedState,
                                 IF vendor = "openai" THEN "" ELSE "cv",
                                 vendor))

\* exchange_code that gives a token without expires_in no lifetime
exchange_code_no_default(vendor, state, post, body, t) ==
    IF vendor \notin OAuthVendors THEN Raised("NotImplementedError")
    ELSE IF post \in ProbeExceptions
    THEN Returned(error_result("code exchange failed", "code_exchange_failed", vendor))
    ELSE IF post # "200"
    THEN Returned(error_result("token exchange failed", "token_exchange_failed", vendor))
    ELSE IF body = None \/ "access_token" \notin DOMAIN body[1]
    THEN Returned(error_result("code exchange failed", "code_exchange_failed", vendor))
    ELSE Returned(success_result(
             TokenData(body[1].access_token,
                       kwargs_get(body[1], "refresh_token"),
                       IF "token_type" \in DOMAIN body[1]
                       THEN body[1].token_type ELSE "Bearer",
                       Some(t + (IF "expires_in" \in DOMAIN body[1]
                                 THEN body[1].expires_in ELSE 0)),
                       Some(t)),
             vendor))

\* exchange_code that rejects a state get_auth_url did not issue
exchange_code_checks_state(vendor, state, post, body, t) ==
    IF vendor \in OAuthVendors /\ state # IssuedState
    THEN Returned(error_result("invalid state", "invalid_state", vendor))
    ELSE IF vendor \notin OAuthVendors THEN Raised("NotImplementedError")
    ELSE IF post \in ProbeExceptions
    THEN Returned(error_result("code exchange failed", "code_exchange_failed", vendor))
    ELSE IF post # "200"
    THEN Returned(error_result("token exchange failed", "token_exchange_failed", vendor))
    ELSE IF body = None \/ "access_token" \notin DOMAIN body[1]
    THEN Returned(error_result("code exchange failed", "code_exchange_failed", vendor))
    ELSE Returned(success_result(
             TokenData(body[1].access_token,
                       kwargs_get(body[1], "refresh_token"),
                       IF "token_type" \in DOMAIN body[1]
                       THEN body[1].token_type ELSE "Bearer",
                       Some(t + (IF "expires_in" \in DOMAIN body[1]
                                 THEN body[1].expires_in ELSE DefaultExpiresIn)),
                       Some(t)),
             vendor))

\* <Vendor>Auth.exchange_code: post is what the token request ended in,
\* body is the parsed response (None when response.json() raises); the
\* state argument is accepted and not read
exchange_code(vendor, state, post, body, t) ==
    IF vendor \notin OAuthVendors THEN Raised("NotImplementedError")
    ELSE IF post \in ProbeExceptions
    THEN Returned(error_result("code exchange failed", "code_exchange_failed", vendor))
    ELSE IF post # "200"
    THEN Returned(error_result("token exchange failed", "token_exchange_failed", vendor))
    ELSE IF body = None \/ "access_token" \notin DOMAIN body[1]
    THEN Returned(error_result("code exchange failed", "code_exchange_failed", vendor))
    ELSE Returned(success_result(
             TokenData(body[1].access_token,
                       kwargs_get(body[1], "refresh_token"),
                       IF "token_type" \in DOMAIN body[1]
                       THEN body[1].token_type ELSE "Bearer",
                       Some(t + (IF "expires_in" \in DOMAIN body[1]
                                 THEN body[1].expires_in ELSE DefaultExpiresIn)),
                       Some(t)),
             vendor))

\* ------------------------------------------------------------ AuthManager
\* refresh step that returns the refreshed token without saving it
refresh_step_no_save(fs, vendor, provider_name, key_id, token_data, fault, t) ==
    [Ok(fs.tokens, fs.metadata)
       EXCEPT !.token = Some(refresh_token(vendor, token_data.refresh_token[1], t))]

\* refresh step without the except clause: the exception escapes
refresh_step_no_except(fs, vendor, provider_name, key_id, token_data, fault, t) ==
    LET new_token_data == refresh_token(vendor, token_data.refresh_token[1], t)
        saved == save_token(fs, provider_name, key_id, new_token_data, None, fault, t)
    IN IF saved.exc = "none"
       THEN [saved EXCEPT !.token = Some(new_token_data)]
       ELSE saved

\* The refresh step of AuthManager.get_token (the try block and its
\* except clause): refresh, save; on any exception delete and return None.
refresh_step(fs, vendor, provider_name, key_id, token_data, fault, t) ==
    LET new_token_data == refresh_token(vendor, token_data.refresh_token[1], t)
        saved == save_token(fs, provider_name, key_id, new_token_data, None, fault, t)
    IN IF saved.exc = "none"
       THEN [saved EXCEPT !.token = Some(new_token_data)]
       ELSE [delete_token(saved, provider_name, key_id)
               EXCEPT !.flag = FALSE, !.caught = saved.exc]

\* Python truthiness of an Optional[str]
truthy(opt) == opt # None /\ opt[1] # ""

\* not-valid handling that returns absent for an expired token without a
\* refresh token but leaves it stored
not_valid_step_keeps_expired(fs, vendor, provider_name, key_id, token_data, token_status, fault, t) ==
    IF token_status = "expired"
    THEN IF truthy(token_data.refresh_token)
         THEN refresh_step(fs, vendor, provider_name, key_id, token_data, fault, t)
         ELSE Ok(fs.tokens, fs.metadata)
    ELSE [delete_token(fs, provider_name, key_id) EXCEPT !.flag = FALSE]

\* not-valid handling that deletes expired tokens only
not_valid_step_keeps_rejected(fs, vendor, provider_name, key_id, token_data, token_status, fault, t) ==
    IF token_status = "expired"
    THEN IF truthy(token_data.refresh_token)
         THEN refresh_step(fs, vendor, provider_name, key_id, token_data, fault, t)
         ELSE [delete_token(fs, provider_name, key_id) EXCEPT !.flag = FALSE]
    ELSE Ok(fs.tokens, fs.metadata)

\* What AuthManager.get_token does with a stored token whose status is
\* not "valid"
not_valid_step(fs, vendor, provider_name, key_id, token_data, token_status, fault, t) ==
    IF token_status = "expired"
    THEN IF truthy(token_data.refresh_token)
         THEN refresh_step(fs, vendor, provider_name, key_id, token_data, fault, t)
         ELSE [delete_token(fs, provider_name, key_id) EXCEPT !.flag = FALSE]
    ELSE [delete_token(fs, provider_name, key_id) EXCEPT !.flag = FALSE]

\* AuthManager.get_token
AuthManager_get_token(fs, provider_name, key_id, validate, probe, fault, t) ==
    LET got == get_token(fs, provider_name, key_id)
        auth_provider == get_auth_provider(provider_name)
    IN IF got.exc # "none" \/ got.token = None THEN got
       ELSE IF ~validate \/ auth_provider = None THEN got
       ELSE LET token_status ==
                    validate_token(auth_provider[1], got.token[1], probe, t)
            IN IF token_status = "valid"
               THEN [got EXCEPT !.status = token_status]
               ELSE [not_valid_step(fs, auth_provider[1], provider_name, key_id,
                                    got.token[1], token_status, fault, t)
                       EXCEPT !.status = token_status]

\* AuthManager.validate_token
AuthManager_validate_token(fs, provider_name, key_id, probe, t) ==
    LET got == AuthManager_get_token(fs, provider_name, key_id, FALSE, probe, "none", t)
        auth_provider == get_auth_provider(provider_name)
    IN IF got.exc # "none" THEN got
       ELSE IF got.token = None \/ auth_provider = None
       THEN [got EXCEPT !.token = None, !.status = "invalid"]
       ELSE [got EXCEPT !.token = None,
                        !.status = validate_token(auth_provider[1], got.token[1],
                                                  probe, t)]

\* What an AuthManager auth operation leaves and hands back
AuthOut(tk, md, out, flag) ==
    [tokens |-> tk, metadata |-> md, result |-> out.result, exc |-> out.exc,
     flag |-> flag]

\* The "provider not found" result of the AuthManager
provider_not_found(provider_name) ==
    error_result("Authentication provider not found", "provider_not_found",
                 provider_name)

\* authenticate tail that writes a record whatever the vendor returned
save_always(fs, provider_name, key_id, auth_result, auth_method, t) ==
    LET saved == save_token(fs, provider_name, key_id,
                            IF auth_result.token_data # None
                            THEN auth_result.token_data[1]
                            ELSE TokenData("", None, "Bearer", None, Some(t)),
                            Some([auth_method |-> auth_method, key_id |-> key_id]),
                            "none", t)
    IN AuthOut(saved.tokens, saved.metadata,
               IF saved.exc # "none" THEN Raised(saved.exc)
               ELSE Returned(auth_result),
               FALSE)

\* The tail of authenticate / exchange_code: save the token of a
\* successful result under the name the caller passed, then return it
save_if_success(fs, provider_name, key_id, auth_result, auth_method, t) ==
    IF auth_result.success /\ auth_result.token_data # None
    THEN LET saved == save_token(fs, provider_name, key_id,
                                 auth_result.token_data[1],
                                 Some([auth_method |-> auth_method,
                                       key_id |-> key_id]),
                                 "none", t)
         IN IF saved.exc # "none"
            THEN AuthOut(saved.tokens, saved.metadata, Raised(saved.exc), FALSE)
            ELSE AuthOut(saved.tokens, saved.metadata, Returned(auth_result), FALSE)
    ELSE AuthOut(fs.tokens, fs.metadata, Returned(auth_result), FALSE)

\* AuthManager.authenticate
AuthManager_authenticate(fs, provider_name, key_id, kwargs, probe, t) ==
    LET auth_provider == get_auth_provider(provider_name) IN
    IF auth_provider = None
    THEN AuthOut(fs.tokens, fs.metadata,
                 Returned(provider_not_found(provider_name)), FALSE)
    ELSE save_if_success(fs, provider_name, key_id,
                         authenticate(auth_provider[1], kwargs, probe, t),
                         IF "auth_method" \in DOMAIN kwargs
                         THEN kwargs.auth_method ELSE "api_key",
                         t)

\* AuthManager.get_auth_url
AuthManager_get_auth_url(fs, provider_name, configured) ==
    LET auth_provider == get_auth_provider(provider_name) IN
    IF auth_provider = None
    THEN AuthOut(fs.tokens, fs.metadata,
                 Returned(provider_not_found(provider_name)), FALSE)
    ELSE AuthOut(fs.tokens, fs.metadata,
                 get_auth_url(auth_provider[1], configured), FALSE)

\* AuthManager.exchange_code
AuthManager_exchange_code(fs, provider_name, key_id, state, post, body, t) ==
    LET auth_provider == get_auth_provider(provider_name) IN
    IF auth_provider = None
    THEN AuthOut(fs.tokens, fs.metadata,
                 Returned(provider_not_found(provider_name)), FALSE)
    ELSE LET out == exchange_code(auth_provider[1], state, post, body, t) IN
         IF out.exc # "none" THEN AuthOut(fs.tokens, fs.metadata, out, FALSE)
         ELSE save_if_success(fs, provider_name, key_id, out.result[1],
                              "oauth", t)

\* logout that lets the exception of the provider's hook escape
AuthManager_logout_raises(fs, provider_name, key_id, hook) ==
    LET got == AuthManager_get_token(fs, provider_name, key_id, FALSE, "200", "none", 0)
        deleted == delete_token(fs, provider_name, key_id)
    IN IF got.exc # "none"
       THEN AuthOut(got.tokens, got.metadata, Raised(got.exc), FALSE)
       ELSE IF got.token = None
       THEN AuthOut(fs.tokens, fs.metadata, NoResult, FALSE)
       ELSE IF get_auth_provider(provider_name) # None /\ hook = "raises"
       THEN AuthOut(fs.tokens, fs.metadata, Raised("Exception"), FALSE)
       ELSE AuthOut(deleted.tokens, deleted.metadata, NoResult, deleted.flag)

\* AuthManager.logout: hook is what the provider's logout does ("ok" or
\* "raises"); its exception is swallowed and the local delete proceeds
AuthManager_logout(fs, provider_name, key_id, hook) ==
    LET got == AuthManager_get_token(fs, provider_name, key_id, FALSE, "200", "none", 0)
        deleted == delete_token(fs, provider_name, key_id)
    IN IF got.exc # "none"
       THEN AuthOut(got.tokens, got.metadata, Raised(got.exc), FALSE)
       ELSE IF got.token = None
       THEN AuthOut(fs.tokens, fs.metadata, NoResult, FALSE)
       ELSE AuthOut(deleted.tokens, deleted.metadata, NoResult, deleted.flag)

\* ------------------------------------------------------------------ inputs
\* Provider names callers pass
ProviderNames == {"gemini"}

Probes == {"200", "403", "500", "timeout"}

Faults == {"none", "open", "write"}

\* A lifetime shorter than the default min_expiry
ShortLifetime == DefaultMinExpiry \div 2

\* Tokens a caller may hand to save_token at clock t: an API key, an OAuth
\* token with a refresh token, and a short-lived token without one.
SaveTokens(t) ==
    { TokenData("ak", None, "Bearer", None, Some(t)),
      TokenData("at", Some("rt"), "Bearer", Some(t + DefaultExpiresIn), Some(t)),
      TokenData("at", None, "Bearer", Some(t + ShortLifetime), Some(t)) }

\* Metadata arguments of save_token: none, or what AuthManager passes
SaveMetadata(key_id) ==
    { None, Some([auth_method |-> "api_key", key_id |-> key_id]) }

\* Patches a caller may hand to update_token_metadata
Patches ==
    { [note |-> "x"], [created_at |-> isoformat(1)] }

MinExpiries == {0, DefaultMinExpiry}

\* ------------------------------------------------------------------- state
\* The arguments of a call that its result does not already tell
NoArgs == [validate |-> FALSE, min_expiry |-> 0, token_data |-> None,
           md |-> None, patch |-> EmptyDict]

fs == [tokens |-> tokens, metadata |-> metadata]

\* The record of a step that is no call
NoCall(op) == [op |-> op, provider |-> "", key_id |-> <<>>, args |-> NoArgs,
               token |-> None, flag |-> FALSE, exc |-> "none",
               status |-> "none", caught |-> "none"]

Init ==
    /\ tokens = [p \in Paths |-> NoFile]
    /\ metadata = [p \in Paths |-> NoFile]
    /\ now = 0
    /\ last = NoCall("init")

\* A completed call: the store it leaves and the record of what it returned
Call(op, provider, key_id, args, r) ==
    /\ tokens' = r.tokens
    /\ metadata' = r.metadata
    /\ last' = [op |-> op, provider |-> provider,
                key_id |-> key_id, args |-> args, token |-> r.token,
                flag |-> r.flag, exc |-> r.exc, status |-> r.status,
                caught |-> r.caught]
    /\ UNCHANGED now

\* ----------------------------------------------------------------- actions
\* The clock advances (datetime.utcnow() grows between calls)
Tick ==
    /\ now < MaxTicks * DefaultExpiresIn
    /\ now' = now + DefaultExpiresIn
    /\ last' = NoCall("tick")
    /\ UNCHANGED <<tokens, metadata>>

SaveToken ==
    \E p \in ProviderNames, k \in KeyIds, f \in Faults :
      \E tok \in SaveTokens(now), md \in SaveMetadata(k) :
        Call("save_token", p, k,
             [NoArgs EXCEPT !.token_data = Some(tok), !.md = md],
             save_token(fs, p, k, tok, md, f, now))

GetToken ==
    \E p \in ProviderNames, k \in KeyIds :
        Call("get_token", p, k, NoArgs, get_token(fs, p, k))

GetValidToken ==
    \E p \in ProviderNames, k \in KeyIds, m \in MinExpiries :
        Call("get_valid_token", p, k, [NoArgs EXCEPT !.min_expiry = m],
             get_valid_token(fs, p, k, m, now))

DeleteToken ==
    \E p \in ProviderNames, k \in KeyIds :
        Call("delete_token", p, k, NoArgs, delete_token(fs, p, k))

UpdateTokenMetadata ==
    \E p \in ProviderNames, k \in KeyIds, patch \in Patches :
        Call("update_token_metadata", p, k, [NoArgs EXCEPT !.patch = patch],
             update_token_metadata(fs, p, k, patch, now))

MgrGetToken ==
    \E p \in ProviderNames, k \in KeyIds, v \in BOOLEAN :
      \E probe \in Probes, f \in Faults :
        Call("AuthManager.get_token", p, k,
             [NoArgs EXCEPT !.validate = v],
             AuthManager_get_token(fs, p, k, v, probe, f, now))

MgrValidateToken ==
    \E p \in ProviderNames, k \in KeyIds, probe \in Probes :
        Call("AuthManager.validate_token", p, k, NoArgs,
             AuthManager_validate_token(fs, p, k, probe, now))

ListTokens ==
    \E p \in ProviderNames :
        LET r == list_tokens(fs, Some(p), now)
        IN Call("list_tokens", p, <<>>, NoArgs, Ok(r.tokens, r.metadata))

Next ==
    \/ Tick
    \/ SaveToken
    \/ GetToken
    \/ GetValidToken
    \/ DeleteToken
    \/ UpdateTokenMetadata
    \/ MgrGetToken
    \/ MgrValidateToken
    \/ ListTokens

Spec == Init /\ [][Next]_vars

\* ------------------------------------------------- cleanup of two keys
\* A second key, so that one record can name the other
K2 == <<"k", "2">>

CleanupKeyIds == {K1, K2}

CleanupPaths == StoreDirs \X {safe_key_id(k) : k \in CleanupKeyIds}

\* Tokens saved before a cleanup: an API key and a short-lived token
CleanupTokens(t) ==
    { TokenData("ak", None, "Bearer", None, Some(t)),
      TokenData("at", None, "Bearer", Some(t + ShortLifetime), Some(t)) }

\* Metadata patches: a note, and a patch that names the key_id field
CleanupPatches == { [note |-> "x"], [key_id |-> K2] }

CleanupInit ==
    /\ tokens = [p \in CleanupPaths |-> NoFile]
    /\ metadata = [p \in CleanupPaths |-> NoFile]
    /\ now = 0
    /\ last = NoCall("init")

\* A store call whose outcome the cleanup claims do not read
StoreStep(op, r) ==
    /\ r.exc = "none"
    /\ tokens' = r.tokens
    /\ metadata' = r.metadata
    /\ last' = NoCall(op)
    /\ UNCHANGED now

CleanupSave ==
    \E p \in ProviderNames, k \in CleanupKeyIds, tok \in CleanupTokens(now) :
        StoreStep("save_token", save_token(fs, p, k, tok, None, "none", now))

CleanupUpdate ==
    \E p \in ProviderNames, k \in CleanupKeyIds, patch \in CleanupPatches :
        StoreStep("update_token_metadata",
                  update_token_metadata(fs, p, k, patch, now))

CleanupDelete ==
    \E p \in ProviderNames, k \in CleanupKeyIds :
        StoreStep("delete_token", delete_token(fs, p, k))

CleanupExpiredTokens ==
    \E order \in Orders({path \in DOMAIN tokens : exists(tokens, path)}) :
        LET r == cleanup_expired_tokens(fs, order, now)
        IN /\ tokens' = r.tokens
           /\ metadata' = r.metadata
           /\ last' = [op |-> "cleanup_expired_tokens", count |-> r.count,
                       exc |-> r.exc]
           /\ UNCHANGED now

CleanupNext ==
    \/ Tick
    \/ CleanupSave
    \/ CleanupUpdate
    \/ CleanupDelete
    \/ CleanupExpiredTokens

SpecCleanup == CleanupInit /\ [][CleanupNext]_vars

\* ------------------------------------------------- authentication flows
\* Provider names callers pass to the AuthManager: the registered vendors,
\* a differently-cased spelling, and a name with a store directory but
\* no auth provider
AuthNames == {"gemini", "Gemini", "claude", "openai", "qwen", "iflow", "codex"}

\* Keyword arguments of authenticate: nothing, an API key, a cookie string
AuthKwargs ==
    { EmptyDict, [api_key |-> "ak"], [cookie_string |-> << <<"sid", "1">> >>] }

\* The same, and an empty API key, a cookie string without any cookie and
\* a cookies mapping
VendorKwargs ==
    AuthKwargs \cup
    { [api_key |-> ""], [cookie_string |-> << <<"junk">> >>],
      [cookies |-> [sid |-> "1"]] }

AuthProbes == ProbeStatuses \cup ProbeExceptions

\* What the token request of exchange_code can end in
Posts == {"200", "400", "timeout"}

\* Parsed token responses: unparseable, an error object, a bare access
\* token, an empty access token, and a full response
ExchangeBodies ==
    { None, Some([error |-> "invalid_grant"]), Some([access_token |-> "at"]),
      Some([access_token |-> ""]),
      Some([access_token |-> "at", refresh_token |-> "rt",
            expires_in |-> ShortLifetime]) }

\* The token responses the AuthManager is driven with
AuthBodies == { body \in ExchangeBodies : body = None \/ DOMAIN body[1] # {"access_token"} }

\* What a provider's logout hook can do
Hooks == {"ok", "raises"}

\* Tokens handed to a vendor's validate_token: an API key, an empty one,
\* an expired one, a cookie token, and a cookie token that is not JSON
ValidateTokens(t) ==
    { TokenData("ak", None, "Bearer", None, Some(t)),
      TokenData("", None, "Bearer", None, Some(t)),
      TokenData("at", None, "Bearer", Some(t), Some(t)),
      TokenData("{\"sid\": \"1\"}", None, "Cookie", Some(t + SevenDays), Some(t)),
      TokenData("sid=1", None, "Cookie", Some(t + SevenDays), Some(t)) }

\* The inputs of an auth call that its outcome does not already tell
NoInput == [kwargs |-> EmptyDict, probe |-> "none", token_data |-> None,
            body |-> None]

\* A completed auth call
AuthStep(op, provider, key_id, input, r, status) ==
    /\ tokens' = r.tokens
    /\ metadata' = r.metadata
    /\ last' = [op |-> op, provider |-> provider, key_id |-> key_id,
                input |-> input, result |-> r.result, exc |-> r.exc,
                flag |-> r.flag, status |-> status]
    /\ UNCHANGED now

Authenticate ==
    \E p \in AuthNames, kwargs \in AuthKwargs, probe \in AuthProbes :
        AuthStep("authenticate", p, K1,
                 [NoInput EXCEPT !.kwargs = kwargs, !.probe = probe],
                 AuthManager_authenticate(fs, p, K1, kwargs, probe, now), "none")

GetAuthUrl ==
    \E p \in AuthNames, configured \in BOOLEAN :
        AuthStep("get_auth_url", p, <<>>, NoInput,
                 AuthManager_get_auth_url(fs, p, configured), "none")

ExchangeCode ==
    \E p \in AuthNames, post \in Posts, body \in AuthBodies :
        AuthStep("exchange_code", p, K1, [NoInput EXCEPT !.probe = post, !.body = body],
                 AuthManager_exchange_code(fs, p, K1, IssuedState, post, body, now), "none")

Logout ==
    \E p \in AuthNames, hook \in Hooks :
        AuthStep("logout", p, K1, [NoInput EXCEPT !.probe = hook],
                 AuthManager_logout(fs, p, K1, hook), "none")

AuthNext ==
    \/ Authenticate
    \/ GetAuthUrl
    \/ ExchangeCode
    \/ Logout

SpecAuth == Init /\ [][AuthNext]_vars

\* ------------------------------------------------------ request headers
\* <Vendor>Auth.get_default_headers.  token_data carries extra_data (None
\* or a mapping; its "cookies" entry is the cookie mapping as the
\* sequence of its items); config_headers are the headers of the vendor's
\* first provider_config, empty when there is none.
get_default_headers(vendor, token_data, config_headers) ==
    LET headers ==
            Merge(("Authorization" :> (token_data.token_type \o " "
                                        \o token_data.access_token))
                  @@ ("Content-Type" :> "application/json")
                  @@ ("User-Agent" :> ("CLIProxyAPI-Python/1.0.0 (" \o vendor \o ")")),
                  config_headers)
        extra_data == IF token_data.extra_data = None THEN EmptyDict
                      ELSE token_data.extra_data[1]
        content_type == ("Content-Type" :> "application/json")
        RECURSIVE join(_)
        join(items) ==
            IF items = <<>> THEN ""
            ELSE items[1][1] \o "=" \o items[1][2]
                 \o (IF Len(items) = 1 THEN "" ELSE "; " \o join(Tail(items)))
    IN CASE vendor = "claude" ->
              Merge(Merge(IF "x-api-key" \in DOMAIN headers THEN EmptyDict
                          ELSE ("x-api-key" :> token_data.access_token),
                          headers),
                    content_type
                    @@ ("anthropic-version" :>
                          entry_get(extra_data, "anthropic_version", "2023-06-01"))
                    @@ ("anthropic-beta" :> "max-tokens-2024-07-15"))
         [] vendor = "gemini" ->
              Merge(Merge(IF token_data.token_type = "Bearer"
                             /\ "x-goog-api-key" \notin DOMAIN headers
                          THEN ("x-goog-api-key" :> token_data.access_token)
                          ELSE EmptyDict,
                          headers),
                    content_type)
         [] vendor = "iflow" ->
              Merge(Merge(headers, content_type),
                    IF "cookies" \in DOMAIN extra_data
                    THEN ("Cookie" :> join(extra_data.cookies))
                    ELSE EmptyDict)
         [] OTHER -> Merge(headers, content_type)

\* ------------------------------------------------- vendor methods alone
\* A vendor method applied to its inputs; the store is not involved
VendorStep(op, vendor, input, out, status) ==
    AuthStep(op, vendor, <<>>, input, AuthOut(tokens, metadata, out, FALSE), status)

VendorAuthenticate ==
    \E vendor \in AuthProviders, kwargs \in VendorKwargs, probe \in AuthProbes :
        VendorStep("authenticate", vendor,
                   [NoInput EXCEPT !.kwargs = kwargs, !.probe = probe],
                   Returned(authenticate(vendor, kwargs, probe, now)), "none")

VendorValidateToken ==
    \E vendor \in AuthProviders, tok \in ValidateTokens(now), probe \in AuthProbes :
        VendorStep("validate_token", vendor,
                   [NoInput EXCEPT !.probe = probe, !.token_data = Some(tok)],
                   NoResult, validate_token(vendor, tok, probe, now))

VendorGetAuthUrl ==
    \E vendor \in AuthProviders, configured \in BOOLEAN :
        VendorStep("get_auth_url", vendor, NoInput,
                   get_auth_url(vendor, configured), "none")

VendorExchangeCode ==
    \E vendor \in AuthProviders, post \in Posts, body \in ExchangeBodies :
        VendorStep("exchange_code", vendor, [NoInput EXCEPT !.probe = post, !.body = body],
                   exchange_code(vendor, IssuedState, post, body, now), "none")

\* Headers are built for the tokens the vendors issue: an API key, an API
\* key with an anthropic_version override, a cookie token with its cookies
\* and a cookie token re-wrapped from a payload that is not JSON
VendorGetDefaultHeaders ==
    \E vendor \in AuthProviders,
       tok \in { Merge(TokenData("ak", None, "Bearer", None, Some(now)),
                       [extra_data |-> None]),
                 Merge(TokenData("ak", None, "Bearer", None, Some(now)),
                       [extra_data |-> Some([key_id |-> "k1",
                                             anthropic_version |-> "2024-01-01"])]),
                 Merge(TokenData("{\"sid\": \"1\"}", None, "Cookie",
                                 Some(now + SevenDays), Some(now)),
                       [extra_data |-> Some([cookies |-> << <<"sid", "1">>,
                                                            <<"t", "2">> >>])]),
                 Merge(TokenData("sid=1", None, "Cookie",
                                 Some(now + OneDay), Some(now)),
                       [extra_data |-> None]) },
       config_headers \in { EmptyDict, ("X-Org" :> "o") } :
        VendorStep("get_default_headers", vendor,
                   [NoInput EXCEPT !.token_data = Some(tok),
                                   !.kwargs = config_headers],
                   Returned(get_default_headers(vendor, tok, config_headers)), "none")

VendorNext ==
    \/ VendorGetDefaultHeaders
    \/ VendorAuthenticate
    \/ VendorValidateToken
    \/ VendorGetAuthUrl
    \/ VendorExchangeCode

SpecVendor == Init /\ [][VendorNext]_vars

\* ------------------------------------------------ token serialisation
\* TokenData values with all ten fields of the dataclass: present and
\* absent timestamps and refresh token, identity fields and extra_data
\* absent or all set
RoundTripTokens(t) ==
    { Merge(TokenData("ak", refresh, "Bearer", expires, issued),
            IF extra = None
            THEN [scope |-> None, email |-> None, user_id |-> None,
                  organization_id |-> None, extra_data |-> None]
            ELSE [scope |-> Some("read"), email |-> Some("a@b.c"),
                  user_id |-> Some("u1"), organization_id |-> Some("org"),
                  extra_data |-> extra]) :
        refresh \in {None, Some("rt")},
        expires \in {None, Some(t), Some(t + ShortLifetime)},
        issued \in {None, Some(t)},
        extra \in {None, Some([key_id |-> "k1", base_url |-> "https://api"])} }

\* to_dict followed by from_dict
DictRoundTrip ==
    \E tok \in RoundTripTokens(now) :
        /\ last' = [op |-> "to_dict/from_dict", token_data |-> tok,
                    data |-> Some(to_dict(tok)),
                    token |-> Some(from_dict(to_dict(tok))), exc |-> "none"]
        /\ UNCHANGED <<tokens, metadata, now>>

\* FileStore.save_token followed by FileStore.get_token of the same key
StoreRoundTrip ==
    \E p \in ProviderNames, k \in KeyIds, tok \in RoundTripTokens(now) :
        LET saved == save_token(fs, p, k, tok, None, "none", now)
            got == get_token(saved, p, k)
        IN /\ tokens' = got.tokens
           /\ metadata' = got.metadata
           /\ last' = [op |-> "save_token/get_token", token_data |-> tok,
                       data |-> IF saved.tokens[_get_token_path(p, k)] = Corrupt
                                THEN None
                                ELSE Some(saved.tokens[_get_token_path(p, k)].data),
                       token |-> got.token, exc |-> got.exc]
           /\ UNCHANGED now

RoundTripNext ==
    \/ Tick
    \/ DictRoundTrip
    \/ StoreRoundTrip

SpecRoundTrip == Init /\ [][RoundTripNext]_vars

\* ------------------------------------- tokens persisted by the AuthManager
\* The store is written by the AuthManager only: authenticate,
\* exchange_code and the refresh path of get_token, while the clock runs.
PersistAuthenticate ==
    \E p \in ProviderNames, k \in KeyIds, kwargs \in AuthKwargs, probe \in Probes :
        AuthStep("authenticate", p, k,
                 [NoInput EXCEPT !.kwargs = kwargs, !.probe = probe],
                 AuthManager_authenticate(fs, p, k, kwargs, probe, now), "none")

PersistExchangeCode ==
    \E p \in ProviderNames, k \in KeyIds, post \in Posts, body \in ExchangeBodies :
        AuthStep("exchange_code", p, k, [NoInput EXCEPT !.probe = post, !.body = body],
                 AuthManager_exchange_code(fs, p, k, IssuedState, post, body, now), "none")

PersistNext ==
    \/ Tick
    \/ PersistAuthenticate
    \/ PersistExchangeCode
    \/ MgrGetToken

SpecPersist == Init /\ [][PersistNext]_vars

\* -------------------------------------------------------------- translator
\* A payload or a message handed to a translator is a mapping tagged with
\* the Python type it arrived as: [py |-> "dict", ...its keys...], or a
\* value of another type ([py |-> "str"], [py |-> "NoneType"]).

\* TranslationResult.success_result
TranslationResult_success_result(translated_data, source_format, target_format) ==
    [success |-> TRUE, error |-> None, error_code |-> None,
     translated_data |-> Some(translated_data),
     source_format |-> source_format, target_format |-> target_format]

\* TranslationResult.error_result
TranslationResult_error_result(error, error_code, source_format, target_format) ==
    [success |-> FALSE, error |-> Some(error), error_code |-> Some(error_code),
     translated_data |-> None,
     source_format |-> source_format, target_format |-> target_format]

\* "key in payload": membership in a dict, FALSE in a str or list that does
\* not hold the key (any other type raises TypeError)
contains(payload, key) ==
    payload.py = "dict" /\ key \in DOMAIN payload

RECURSIVE concat(_)
\* The concatenation of a sequence of sequences (nested for loops that
\* append)
concat(seqs) ==
    IF seqs = <<>> THEN <<>> ELSE Head(seqs) \o concat(Tail(seqs))

\* BaseTranslator._extract_messages
_extract_messages(request_data) ==
    IF contains(request_data, "messages") THEN request_data.messages
    ELSE IF contains(request_data, "contents")
    THEN concat([ i \in DOMAIN request_data.contents |->
            LET content == request_data.contents[i] IN
            IF "parts" \notin DOMAIN content THEN <<>>
            ELSE concat([ j \in DOMAIN content.parts |->
                    IF "text" \notin DOMAIN content.parts[j] THEN <<>>
                    ELSE << [py |-> "dict",
                             role |-> entry_get(content, "role", "user"),
                             content |-> content.parts[j].text] >> ]) ])
    ELSE <<>>

\* _create_gemini_contents that keeps a system message as a user turn
_create_gemini_contents_assistant_only(messages) ==
    [ i \in DOMAIN messages |->
        [role |-> IF entry_get(messages[i], "role", "user") = "assistant"
                  THEN "model" ELSE "user",
         parts |-> << [text |-> entry_get(messages[i], "content", "")] >>] ]

\* BaseTranslator._create_gemini_contents
_create_gemini_contents(messages) ==
    [ i \in DOMAIN messages |->
        [role |-> IF entry_get(messages[i], "role", "user") \in {"assistant", "system"}
                  THEN "model" ELSE "user",
         parts |-> << [text |-> entry_get(messages[i], "content", "")] >>] ]

\* OpenAIToGeminiTranslator._map_model_name
_map_model_name(openai_model) ==
    CASE openai_model = "gpt-3.5-turbo" -> "gemini-pro"
      [] openai_model = "gpt-4" -> "gemini-pro"
      [] openai_model = "gpt-4-turbo" -> "gemini-1.5-pro"
      [] openai_model = "gpt-4o" -> "gemini-1.5-flash"
      [] OTHER -> "gemini-pro"

\* translate_request without its except clause
OpenAIToGemini_translate_request_uncaught(request_data) ==
    IF request_data.py \notin {"dict", "str", "list"} THEN [raised |-> "TypeError"]
    ELSE IF \E i \in DOMAIN _extract_messages(request_data) :
                _extract_messages(request_data)[i].py # "dict"
    THEN [raised |-> "AttributeError"]
    ELSE TranslationResult_success_result(
             [contents |-> _create_gemini_contents(_extract_messages(request_data))],
             "openai", "gemini")

\* OpenAIToGeminiTranslator.translate_request.  "messages" in a payload
\* that is no dict, str or list raises TypeError, msg.get on a message
\* that is no dict raises AttributeError; the except clause turns both
\* into a translation_failed result.
OpenAIToGemini_translate_request(request_data) ==
    IF \/ request_data.py \notin {"dict", "str", "list"}
       \/ \E i \in DOMAIN _extract_messages(request_data) :
             _extract_messages(request_data)[i].py # "dict"
    THEN TranslationResult_error_result("Failed to translate request",
                                        "translation_failed", "openai", "gemini")
    ELSE LET contents == _create_gemini_contents(_extract_messages(request_data))
             copied == { <<"temperature", "temperature">>,
                         <<"max_tokens", "maxOutputTokens">>,
                         <<"top_p", "topP">>,
                         <<"frequency_penalty", "frequencyPenalty">>,
                         <<"presence_penalty", "presencePenalty">>,
                         <<"stop", "stopSequences">> }
             present == { pr \in copied : contains(request_data, pr[1]) }
             keys == {"contents"}
                     \cup (IF contains(request_data, "model") THEN {"model"} ELSE {})
                     \cup { pr[2] : pr \in present }
         IN TranslationResult_success_result(
                [ k \in keys |->
                    IF k = "contents" THEN contents
                    ELSE IF k = "model" THEN _map_model_name(request_data.model)
                    ELSE request_data[(CHOOSE pr \in present : pr[2] = k)[1]] ],
                "openai", "gemini")

\* translate_response that numbers the choices from 1
OpenAIToGemini_translate_response_from_one(response_data) ==
    IF response_data.py # "dict"
    THEN TranslationResult_error_result("Failed to translate response",
                                        "translation_failed", "gemini", "openai")
    ELSE LET cands == IF "candidates" \in DOMAIN response_data
                      THEN response_data.candidates ELSE <<>>
             texts == concat([ i \in DOMAIN cands |->
                        IF "content" \in DOMAIN cands[i]
                           /\ "parts" \in DOMAIN cands[i].content
                        THEN concat([ j \in DOMAIN cands[i].content.parts |->
                               IF "text" \in DOMAIN cands[i].content.parts[j]
                               THEN << [text |-> cands[i].content.parts[j].text,
                                        finish |-> entry_get(cands[i], "finishReason",
                                                             "stop")] >>
                               ELSE <<>> ])
                        ELSE <<>> ])
             usageMetadata == entry_get(response_data, "usageMetadata", EmptyDict)
         IN TranslationResult_success_result(
                [id |-> entry_get(response_data, "id", "gemini-hash"),
                 object |-> "chat.completion",
                 created |-> entry_get(response_data, "created", 0),
                 model |-> entry_get(response_data, "model", "gemini-pro"),
                 choices |-> [ n \in DOMAIN texts |->
                     [index |-> n,
                      message |-> [role |-> "assistant", content |-> texts[n].text],
                      finish_reason |-> texts[n].finish] ],
                 usage |-> [prompt_tokens |->
                                entry_get(usageMetadata, "promptTokenCount", 0),
                            completion_tokens |->
                                entry_get(usageMetadata, "candidatesTokenCount", 0),
                            total_tokens |->
                                entry_get(usageMetadata, "totalTokenCount", 0)]],
                "gemini", "openai")

\* OpenAIToGeminiTranslator.translate_response.  A payload that is no
\* dict raises inside the try block ("candidates" in None, or .get on a
\* str or list).  The default id embeds hash(str(response_data)).
OpenAIToGemini_translate_response(response_data) ==
    IF response_data.py # "dict"
    THEN TranslationResult_error_result("Failed to translate response",
                                        "translation_failed", "gemini", "openai")
    ELSE LET cands == IF "candidates" \in DOMAIN response_data
                      THEN response_data.candidates ELSE <<>>
             texts == concat([ i \in DOMAIN cands |->
                        IF "content" \in DOMAIN cands[i]
                           /\ "parts" \in DOMAIN cands[i].content
                        THEN concat([ j \in DOMAIN cands[i].content.parts |->
                               IF "text" \in DOMAIN cands[i].content.parts[j]
                               THEN << [text |-> cands[i].content.parts[j].text,
                                        finish |-> entry_get(cands[i], "finishReason",
                                                             "stop")] >>
                               ELSE <<>> ])
                        ELSE <<>> ])
             usageMetadata == entry_get(response_data, "usageMetadata", EmptyDict)
         IN TranslationResult_success_result(
                [id |-> entry_get(response_data, "id", "gemini-hash"),
                 object |-> "chat.completion",
                 created |-> entry_get(response_data, "created", 0),
                 model |-> entry_get(response_data, "model", "gemini-pro"),
                 choices |-> [ n \in DOMAIN texts |->
                     [index |-> n - 1,
                      message |-> [role |-> "assistant", content |-> texts[n].text],
                      finish_reason |-> texts[n].finish] ],
                 usage |-> [prompt_tokens |->
                                entry_get(usageMetadata, "promptTokenCount", 0),
                            completion_tokens |->
                                entry_get(usageMetadata, "candidatesTokenCount", 0),
                            total_tokens |->
                                entry_get(usageMetadata, "totalTokenCount", 0)]],
                "gemini", "openai")

\* ------------------------------------------------------ TranslatorRegistry
\* TranslatorRegistry.translators after __init__: register_translator
\* files the one default translator under "<source_format>:<target_format>"
translators ==
    [ key \in {"openai" \o ":" \o "gemini"} |-> "OpenAIToGeminiTranslator" ]

\* TranslatorRegistry.get_translator
get_translator(source_format, target_format) ==
    kwargs_get(translators, source_format \o ":" \o target_format)

\* TranslatorRegistry.translate_request
Registry_translate_request(source_format, target_format, request_data) ==
    IF get_translator(source_format, target_format) = None
    THEN TranslationResult_error_result("No translator found", "translator_not_found",
                                        source_format, target_format)
    ELSE OpenAIToGemini_translate_request(request_data)

\* translate_response that looks up the pair as given
Registry_translate_response_same_pair(source_format, target_format, response_data) ==
    IF get_translator(source_format, target_format) = None
    THEN TranslationResult_error_result("No translator found", "translator_not_found",
                                        target_format, source_format)
    ELSE OpenAIToGemini_translate_response(response_data)

\* TranslatorRegistry.translate_response: the translator looked up is the
\* one from target_format back to source_format
Registry_translate_response(source_format, target_format, response_data) ==
    IF get_translator(target_format, source_format) = None
    THEN TranslationResult_error_result("No translator found", "translator_not_found",
                                        target_format, source_format)
    ELSE OpenAIToGemini_translate_response(response_data)

\* --------------------------------------------------------- GeminiProvider
\* The message conversion at the head of GeminiProvider.chat_completion:
\* the contents after the first n messages.  A system message is
\* prepended to the content before it when that is a user turn, and is
\* passed over otherwise; other roles add nothing.
chat_completion_contents(messages) ==
    LET RECURSIVE after(_)
        after(n) ==
          IF n = 0 THEN <<>>
          ELSE LET gemini_contents == after(n - 1)
                   role == messages[n].role
                   content == messages[n].content
                   m == Len(gemini_contents)
               IN CASE role = "system" ->
                         IF m > 0 /\ gemini_contents[m].role = "user"
                         THEN [gemini_contents EXCEPT ![m].parts[1].text =
                                   content \o "\n\n" \o @]
                         ELSE gemini_contents
                    [] role = "user" ->
                         Append(gemini_contents,
                                [role |-> "user", parts |-> << [text |-> content] >>])
                    [] role = "assistant" ->
                         Append(gemini_contents,
                                [role |-> "model", parts |-> << [text |-> content] >>])
                    [] OTHER -> gemini_contents
    IN after(Len(messages))

\* ----------------------------------------------------- translation calls
\* The longest message list and candidate list
MaxMessages == 2

\* The arguments translation calls are made with.
\*   formats:   the registered pair, another vendor, another letter case
\*   requests:  OpenAI chat requests whose messages have the four roles, no
\*              role and content, or are no mapping, with and without a
\*              model and sampling parameters; a Gemini-format request; an
\*              empty mapping; payloads that are no mapping
\*   responses: Gemini responses whose candidates have one text part, two
\*              text parts and no finishReason, no content, or a part
\*              that is not text, with full, partial and no usage
\*              metadata; an empty mapping; payloads that are no mapping
\*   chats:     message lists for GeminiProvider.chat_completion, every
\*              message with role and content
TranslateInputs ==
    LET SeqsUpTo(S, n) == UNION { [1..k -> S] : k \in 0..n }
        ChatMessages ==
            { [py |-> "dict", role |-> r, content |-> "hi"] :
                r \in {"system", "user", "assistant", "tool"} }
            \cup { [py |-> "dict", role |-> "user", content |-> "yo"],
                   [py |-> "dict"], [py |-> "str"] }
        Candidates ==
            { [content |-> [parts |-> << [text |-> "hello"] >>], finishReason |-> "STOP"],
              [content |-> [parts |-> << [text |-> "a"], [text |-> "b"] >>]],
              [finishReason |-> "SAFETY"],
              [content |-> [parts |-> << [inlineData |-> "x"], [text |-> "c"] >>],
               finishReason |-> "MAX_TOKENS"] }
    IN [formats |-> {"openai", "gemini", "claude", "OpenAI"},
        requests |->
            { Merge([py |-> "dict", messages |-> msgs], extra) :
                msgs \in SeqsUpTo(ChatMessages, MaxMessages),
                extra \in { EmptyDict, [model |-> "gpt-4o"],
                            [model |-> "some-unknown-model", temperature |-> 1,
                             max_tokens |-> 16] } }
            \cup { [py |-> "dict"], [py |-> "str"], [py |-> "NoneType"],
                   [py |-> "dict",
                    contents |-> << [role |-> "user", parts |-> << [text |-> "hi"] >>],
                                    [parts |-> << [text |-> "a"],
                                                  [inlineData |-> "x"] >>] >>] },
        responses |->
            { Merge([py |-> "dict", candidates |-> cands], extra) :
                cands \in SeqsUpTo(Candidates, MaxMessages),
                extra \in { EmptyDict,
                            [usageMetadata |-> [promptTokenCount |-> 1,
                                                candidatesTokenCount |-> 3,
                                                totalTokenCount |-> 4]],
                            [usageMetadata |-> [totalTokenCount |-> 4], id |-> "r1"] } }
            \cup { [py |-> "dict"], [py |-> "str"], [py |-> "NoneType"] },
        chats |->
            { [py |-> "list", messages |-> msgs] :
                msgs \in SeqsUpTo({ m \in ChatMessages : "role" \in DOMAIN m },
                                  MaxMessages) }]

\* The functions are pure: a behaviour draws the arguments of one call
TranslateInit ==
    /\ tokens = [p \in Paths |-> NoFile]
    /\ metadata = [p \in Paths |-> NoFile]
    /\ now = 0
    /\ \E S \in TranslateInputs.formats, T \in TranslateInputs.formats,
          data \in TranslateInputs.requests \cup TranslateInputs.responses
                     \cup TranslateInputs.chats :
          last = [op |-> "init", source_format |-> S, target_format |-> T,
                  data |-> data, result |-> None]

TranslateRequest ==
    /\ last.op = "init"
    /\ last.data \in TranslateInputs.requests
    /\ last' = [last EXCEPT !.op = "translate_request",
                            !.result = Registry_translate_request(
                                last.source_format, last.target_format, last.data)]
    /\ UNCHANGED <<tokens, metadata, now>>

TranslateResponse ==
    /\ last.op = "init"
    /\ last.data \in TranslateInputs.responses
    /\ last' = [last EXCEPT !.op = "translate_response",
                            !.result = Registry_translate_response(
                                last.source_format, last.target_format, last.data)]
    /\ UNCHANGED <<tokens, metadata, now>>

ChatCompletion ==
    /\ last.op = "init"
    /\ last.data \in TranslateInputs.chats
    /\ last' = [last EXCEPT !.op = "chat_completion",
                            !.result = chat_completion_contents(last.data.messages)]
    /\ UNCHANGED <<tokens, metadata, now>>

TranslateNext ==
    \/ TranslateRequest
    \/ TranslateResponse
    \/ ChatCompletion

SpecTranslate == TranslateInit /\ [][TranslateNext]_vars

\* ------------------------------------------- code exchange and its state
\* state arguments a callback may carry: the issued one, one that
\* get_auth_url never issued, and the empty string
OAuthStates == {IssuedState, "forged", ""}

\* One callback: the arguments of one AuthManager.exchange_code call and
\* the answer its token request will get, on an empty store
ExchangeInit ==
    /\ tokens = [p \in Paths |-> NoFile]
    /\ metadata = [p \in Paths |-> NoFile]
    /\ now = 0
    /\ \E p \in AuthNames, state \in OAuthStates, post \in Posts,
          body \in ExchangeBodies :
          last = [op |-> "init", provider |-> p, key_id |-> K1, state |-> state,
                  post |-> post, body |-> body, result |-> None, exc |-> "none"]

\* AuthManager.exchange_code(provider_name, code, state, code_verifier, key_id)
ExchangeWithState ==
    /\ last.op = "init"
    /\ LET r == AuthManager_exchange_code(fs, last.provider, last.key_id,
                                          last.state, last.post, last.body, now)
       IN /\ tokens' = r.tokens
          /\ metadata' = r.metadata
          /\ last' = [last EXCEPT !.op = "exchange_code", !.result = r.result,
                                  !.exc = r.exc]
    /\ UNCHANGED now

SpecExchange == ExchangeInit /\ [][ExchangeWithState]_vars

\* ------------------------------------------------- life of a credential
\* An API-key vendor with an OAuth flow, and the cookie vendor
LifecycleNames == {"gemini", "iflow"}

\* A week passes (iFlow cookie tokens are issued for timedelta(days=7))
LifecycleTick ==
    /\ now < MaxTicks * SevenDays
    /\ now' = now + SevenDays
    /\ last' = NoCall("tick")
    /\ UNCHANGED <<tokens, metadata>>

LifecycleAuthenticate ==
    \E p \in LifecycleNames, kwargs \in AuthKwargs, probe \in Probes :
        AuthStep("authenticate", p, K1,
                 [NoInput EXCEPT !.kwargs = kwargs, !.probe = probe],
                 AuthManager_authenticate(fs, p, K1, kwargs, probe, now), "none")

LifecycleExchangeCode ==
    \E p \in LifecycleNames, post \in Posts, body \in ExchangeBodies :
        AuthStep("exchange_code", p, K1,
                 [NoInput EXCEPT !.probe = post, !.body = body],
                 AuthManager_exchange_code(fs, p, K1, IssuedState, post, body, now),
                 "none")

LifecycleGetToken ==
    \E p \in LifecycleNames, probe \in Probes :
        Call("AuthManager.get_token", p, K1, [NoArgs EXCEPT !.validate = TRUE],
             AuthManager_get_token(fs, p, K1, TRUE, probe, "none", now))

LifecycleNext ==
    \/ LifecycleTick
    \/ LifecycleAuthenticate
    \/ LifecycleExchangeCode
    \/ LifecycleGetToken

SpecLifecycle == Init /\ [][LifecycleNext]_vars

\* ------------------------------------------ two get_token calls at once
\* Two coroutines run AuthManager.get_token("gemini", K1, validate=True) on
\* one event loop; each "await" of the manager and of the file store is a
\* point where the other coroutine may run.  last.calls[c] holds the
\* position (pc) and the local variables of call c, last.writer the call
\* whose f.write reached the token file last.
RacePath == _get_token_path("gemini", K1)

\* The stored record the calls meet: an expired token with a refresh
\* token, an expired one without, and an API key that never expires,
\* each with the metadata exchange_code writes.
RaceStores ==
    { save_token([tokens |-> [p \in Paths |-> NoFile],
                  metadata |-> [p \in Paths |-> NoFile]],
                 "gemini", K1, tok,
                 Some([auth_method |-> "oauth", key_id |-> K1]), "none", 0) :
        tok \in { TokenData("at", Some("rt"), "Bearer", Some(ShortLifetime), Some(0)),
                  TokenData("at", None, "Bearer", Some(ShortLifetime), Some(0)),
                  TokenData("ak", None, "Bearer", None, Some(0)) } }

\* f.write that spoils a file the other handle has already filled
write_file_keeps_first(files, path, data) ==
    IF files[path] = NoFile THEN files
    ELSE IF files[path] = Corrupt THEN [files EXCEPT ![path] = JsonFile(data)]
    ELSE [files EXCEPT ![path] = Corrupt]

\* f.write(..) on a handle opened with "w": the bytes are written from
\* offset 0 of the truncated file and replace what another handle wrote
\* there (the serialised tokens of two refreshes have the same fields and
\* the same width); a handle whose file was removed since writes to no path
write_file(files, path, data) ==
    IF files[path] = NoFile THEN files
    ELSE [files EXCEPT ![path] = JsonFile(data)]

RaceInit ==
    /\ now = DefaultExpiresIn
    /\ \E store \in RaceStores, probes \in [1..2 -> {"200", "403"}],
          faults \in [1..2 -> {"none", "write"}] :
          /\ tokens = store.tokens
          /\ metadata = store.metadata
          /\ last = [op |-> "init", writer |-> 0,
                     calls |-> [c \in 1..2 |->
                                  [pc |-> "exists", probe |-> probes[c],
                                   fault |-> faults[c], token_data |-> None,
                                   new_token_data |-> None, returned |-> None,
                                   raised |-> "none"]]]

\* One step of call c: its new position and locals, and the files it leaves
RaceStep(op, c, call, tk, md, writer) ==
    /\ tokens' = tk
    /\ metadata' = md
    /\ last' = [op |-> op, writer |-> writer,
                calls |-> [last.calls EXCEPT ![c] = call]]
    /\ UNCHANGED now

\* datetime.utcnow() moves on between two steps
RaceTick ==
    /\ now < DefaultExpiresIn + MaxTicks
    /\ now' = now + 1
    /\ last' = [last EXCEPT !.op = "tick"]
    /\ UNCHANGED <<tokens, metadata>>

\* FileStore.get_token, await by await: path.exists; open and read (a
\* missing file raises FileNotFoundError, which the except clause does not
\* catch); os.remove of a file that does not parse, then StoreError
RaceStoreGet ==
    \E c \in 1..2 :
      LET call == last.calls[c] IN
      \/ /\ call.pc = "exists"
         /\ RaceStep("get_token", c,
                IF exists(tokens, RacePath) THEN [call EXCEPT !.pc = "read"]
                ELSE [call EXCEPT !.pc = "done"],
                tokens, metadata, last.writer)
      \/ /\ call.pc = "read"
         /\ RaceStep("get_token", c,
                IF tokens[RacePath] = NoFile
                THEN [call EXCEPT !.pc = "done", !.raised = "FileNotFoundError"]
                ELSE IF tokens[RacePath] = Corrupt
                THEN [call EXCEPT !.pc = "remove"]
                ELSE [call EXCEPT
                        !.pc = "validate",
                        !.token_data =
                            Some(_deserialize_token(tokens[RacePath].data))],
                tokens, metadata, last.writer)
      \/ /\ call.pc = "remove"
         /\ RaceStep("get_token", c,
                [call EXCEPT !.pc = "done",
                             !.raised = IF exists(tokens, RacePath)
                                        THEN "StoreError"
                                        ELSE "FileNotFoundError"],
                IF exists(tokens, RacePath) THEN remove(tokens, RacePath)
                ELSE tokens,
                metadata, last.writer)

\* AuthManager.get_token from validate_token to the branch it takes
RaceValidate ==
    \E c \in 1..2 :
      LET call == last.calls[c]
          token_status == validate_token("gemini", call.token_data[1],
                                         call.probe, now)
      IN /\ call.pc = "validate"
         /\ RaceStep("validate_token", c,
                IF token_status = "valid"
                THEN [call EXCEPT !.pc = "done", !.returned = call.token_data]
                ELSE IF token_status = "expired"
                        /\ truthy(call.token_data[1].refresh_token)
                THEN [call EXCEPT !.pc = "refresh"]
                ELSE [call EXCEPT !.pc = "delete"],
                tokens, metadata, last.writer)

\* new_token_data = await auth_provider.refresh_token(..)
RaceRefresh ==
    \E c \in 1..2 :
      LET call == last.calls[c] IN
      /\ call.pc = "refresh"
      /\ RaceStep("refresh_token", c,
             [call EXCEPT
                !.pc = "open",
                !.new_token_data =
                    Some(refresh_token("gemini",
                                       call.token_data[1].refresh_token[1], now))],
             tokens, metadata, last.writer)

\* FileStore.save_token inside the try block: open(token_path, "w")
\* truncates the file, f.write fills it; a write that raises sends the
\* call to the except clause.  No metadata is passed.
RaceStoreSave ==
    \E c \in 1..2 :
      LET call == last.calls[c] IN
      \/ /\ call.pc = "open"
         /\ RaceStep("save_token", c, [call EXCEPT !.pc = "write"],
                [tokens EXCEPT ![RacePath] = Corrupt], metadata, last.writer)
      \/ /\ call.pc = "write"
         /\ IF call.fault = "write"
            THEN RaceStep("save_token", c, [call EXCEPT !.pc = "delete"],
                          tokens, metadata, last.writer)
            ELSE RaceStep("save_token", c,
                          [call EXCEPT !.pc = "done",
                                       !.returned = call.new_token_data],
                          write_file(tokens, RacePath,
                                     _serialize_token(call.new_token_data[1])),
                          metadata,
                          IF tokens[RacePath] = NoFile THEN last.writer ELSE c)

\* FileStore.delete_token, await by await, then "return None": exists and
\* remove of the token file, exists and remove of the metadata file; a
\* remove of a file the other call removed first raises
RaceStoreDelete ==
    \E c \in 1..2 :
      LET call == last.calls[c] IN
      \/ /\ call.pc = "delete"
         /\ RaceStep("delete_token", c,
                [call EXCEPT !.pc = IF exists(tokens, RacePath)
                                    THEN "delete_token" ELSE "delete_check"],
                tokens, metadata, last.writer)
      \/ /\ call.pc = "delete_token"
         /\ IF exists(tokens, RacePath)
            THEN RaceStep("delete_token", c, [call EXCEPT !.pc = "delete_check"],
                          remove(tokens, RacePath), metadata, last.writer)
            ELSE RaceStep("delete_token", c,
                          [call EXCEPT !.pc = "done",
                                       !.raised = "FileNotFoundError"],
                          tokens, metadata, last.writer)
      \/ /\ call.pc = "delete_check"
         /\ RaceStep("delete_token", c,
                [call EXCEPT !.pc = IF exists(metadata, RacePath)
                                    THEN "delete_metadata" ELSE "done"],
                tokens, metadata, last.writer)
      \/ /\ call.pc = "delete_metadata"
         /\ IF exists(metadata, RacePath)
            THEN RaceStep("delete_token", c, [call EXCEPT !.pc = "done"],
                          tokens, remove(metadata, RacePath), last.writer)
            ELSE RaceStep("delete_token", c,
                          [call EXCEPT !.pc = "done",
                                       !.raised = "FileNotFoundError"],
                          tokens, metadata, last.writer)

RaceNext ==
    \/ RaceTick
    \/ RaceStoreGet
    \/ RaceValidate
    \/ RaceRefresh
    \/ RaceStoreSave
    \/ RaceStoreDelete

SpecRace == RaceInit /\ [][RaceNext]_vars

\* ------------------------------------------------------ provider statistics
\* Requests one provider records before the registry is shut down, and
\* requests that may wait on the provider at one time
MaxRequests == 20

MaxInFlight == 2

\* Token counts a response's usage may report
UsageTokens == {0, 1}

\* ProviderStats(): the counters of a new provider.  total_cost stays 0.0
\* (the registry passes cost=0.0) and average_response_time /
\* last_request_time are wall-clock readings no status depends on.
ProviderStats ==
    [total_requests |-> 0, successful_requests |-> 0, failed_requests |-> 0,
     total_tokens |-> 0, status |-> "healthy"]

\* success_rate() >= pct, i.e. (successful / total) * 100 >= pct; the
\* float quotient and the integer comparison agree for every count of up
\* to 400 requests.
success_rate_ge(stats, pct) ==
    /\ stats.total_requests # 0
    /\ stats.successful_requests * 100 >= pct * stats.total_requests

\* update_request that takes exactly 95% for degraded
update_request_strict(stats, success, usage) ==
    LET counted ==
          [stats EXCEPT
             !.total_requests = @ + 1,
             !.successful_requests = IF success THEN @ + 1 ELSE @,
             !.failed_requests = IF success THEN @ ELSE @ + 1,
             !.total_tokens = @ + usage]
    IN [counted EXCEPT
          !.status = IF success_rate_ge(counted, 95)
                        /\ counted.successful_requests * 100
                             # 95 * counted.total_requests
                     THEN "healthy"
                     ELSE IF success_rate_ge(counted, 80) THEN "degraded"
                     ELSE "unhealthy"]

\* ProviderStats.update_request
update_request(stats, success, usage) ==
    LET counted ==
          [stats EXCEPT
             !.total_requests = @ + 1,
             !.successful_requests = IF success THEN @ + 1 ELSE @,
             !.failed_requests = IF success THEN @ ELSE @ + 1,
             !.total_tokens = @ + usage]
    IN [counted EXCEPT
          !.status = IF success_rate_ge(counted, 95) THEN "healthy"
                     ELSE IF success_rate_ge(counted, 80) THEN "degraded"
                     ELSE "unhealthy"]

\* BaseProvider._set_status
_set_status(stats, status) == [stats EXCEPT !.status = status]

\* One provider after ProviderRegistry._initialize_provider: constructed,
\* initialize() has set it healthy, and it is registered.
ProviderInit ==
    /\ tokens = [p \in Paths |-> NoFile]
    /\ metadata = [p \in Paths |-> NoFile]
    /\ now = 0
    /\ last = [op |-> "initialize",
               stats |-> _set_status(ProviderStats, "healthy"),
               in_flight |-> 0, registered |-> TRUE]

\* ProviderRegistry.chat_completion up to "await provider.chat_completion":
\* the provider is looked up in the registry and the request is sent
ChatCompletionStart ==
    /\ last.registered
    /\ last.in_flight < MaxInFlight
    /\ last.stats.total_requests + last.in_flight < MaxRequests
    /\ last' = [last EXCEPT !.op = "chat_completion.start", !.in_flight = @ + 1]
    /\ UNCHANGED <<tokens, metadata, now>>

\* ProviderRegistry.chat_completion from the await on: a response, with
\* its usage, is recorded as a success
ChatCompletionReturn ==
    /\ last.in_flight > 0
    /\ \E tokens_used \in UsageTokens :
         last' = [last EXCEPT !.op = "chat_completion.return",
                              !.in_flight = @ - 1,
                              !.stats = update_request(@, TRUE, tokens_used)]
    /\ UNCHANGED <<tokens, metadata, now>>

\* ProviderRegistry.chat_completion from the await on: an exception is
\* recorded as a failure and raised again
ChatCompletionRaise ==
    /\ last.in_flight > 0
    /\ last' = [last EXCEPT !.op = "chat_completion.raise",
                            !.in_flight = @ - 1,
                            !.stats = update_request(@, FALSE, 0)]
    /\ UNCHANGED <<tokens, metadata, now>>

\* ProviderRegistry.shutdown: the provider is shut down (status offline)
\* and dropped from the registry; requests already sent still complete
ProviderShutdown ==
    /\ last.registered
    /\ last' = [last EXCEPT !.op = "shutdown", !.registered = FALSE,
                            !.stats = _set_status(@, "offline")]
    /\ UNCHANGED <<tokens, metadata, now>>

ProviderNext ==
    \/ ChatCompletionStart
    \/ ChatCompletionReturn
    \/ ChatCompletionRaise
    \/ ProviderShutdown

SpecProvider == ProviderInit /\ [][ProviderNext]_vars

\* ------------------------------------------------------------- properties
\* The path the last call addressed
LastPath == _get_token_path(last.provider, last.key_id)

\* The token a store held for a key (None when missing or unreadable)
Stored(store, provider, key_id) == get_token(store, provider, key_id).token

\* The last step was AuthManager.get_token(validate=true) on a registered vendor
ValidatingGet(l) ==
    /\ l.op = "AuthManager.get_token"
    /\ l.args.validate
    /\ get_auth_provider(l.provider) # None

\* C1: AuthManager.get_token(provider, key_id, validate=true) on a stored
\* token that is expired and has no refresh_token returns absent and has
\* deleted the store record: list_tokens(provider) no longer shows the key
\* and get_token(validate=false) returns absent.
C1_ExpiredWithoutRefreshIsDeleted ==
    [][ ( /\ ValidatingGet(last')
          /\ Stored(fs, last'.provider, last'.key_id) # None
          /\ is_expired(Stored(fs, last'.provider, last'.key_id)[1], now)
          /\ ~truthy(Stored(fs, last'.provider, last'.key_id)[1].refresh_token) )
        => ( /\ last'.token = None
             /\ last'.exc = "none"
             /\ ~exists(tokens', LastPath')
             /\ LastPath' \notin DOMAIN list_tokens(fs', Some(last'.provider), now').entries
             /\ AuthManager_get_token(fs', last'.provider, last'.key_id,
                                      FALSE, "200", "none", now').token = None ) ]_vars

C1_Witness ==
    /\ ValidatingGet(last)
    /\ last.status = "expired"
    /\ last.caught = "none"
    /\ last.token = None
    /\ ~exists(tokens, LastPath)

\* C2: AuthManager.get_token(validate=true) on a stored token whose status
\* is expired and that has a refresh_token, when nothing raises in the
\* refresh step, returns the provider's refreshed token and has persisted
\* it under the same key: the stored record equals the returned token and
\* the old token is no longer stored.
C2_ExpiredWithRefreshIsRefreshed ==
    [][ ( /\ ValidatingGet(last')
          /\ last'.status = "expired"
          /\ last'.caught = "none"
          /\ Stored(fs, last'.provider, last'.key_id) # None
          /\ truthy(Stored(fs, last'.provider, last'.key_id)[1].refresh_token) )
        => ( /\ last'.exc = "none"
             /\ last'.token # None
             /\ last'.token[1].access_token =
                  Stored(fs, last'.provider, last'.key_id)[1].refresh_token[1]
             /\ last'.token[1].issued_at = Some(now)
             /\ Stored(fs', last'.provider, last'.key_id) = last'.token
             /\ Stored(fs', last'.provider, last'.key_id)
                  # Stored(fs, last'.provider, last'.key_id) ) ]_vars

C2_Witness ==
    /\ ValidatingGet(last)
    /\ last.status = "expired"
    /\ last.token # None
    /\ Stored(fs, last.provider, last.key_id) = last.token

\* C3: fail-closed refresh: a get_token that found the token expired never
\* propagates an exception, and if anything raised during its refresh step
\* the stale token is deleted from the store and the call returns absent.
C3_RefreshFailureIsFailClosed ==
    (ValidatingGet(last) /\ last.status = "expired")
    => ( /\ last.exc = "none"
         /\ last.caught # "none"
              => (last.token = None /\ ~exists(tokens, LastPath)) )

C3_Witness ==
    /\ ValidatingGet(last)
    /\ last.status = "expired"
    /\ last.caught # "none"
    /\ last.token = None

\* C4 as claimed: whenever a live probe rejects the stored credential
\* (status invalid) during AuthManager.get_token(validate=true) or
\* AuthManager.validate_token, no record for the key remains in the store
\* when the operation returns.
C4_InvalidAlwaysDeleted ==
    ( /\ ValidatingGet(last) \/ last.op = "AuthManager.validate_token"
      /\ last.status = "invalid" )
    => ~exists(tokens, LastPath)

\* C4 as amended: a rejection seen by get_token(validate=true) ends in
\* deletion and an absent result; validate_token only reports the status
\* and leaves the store as it was.
C4_InvalidDeletedByGetToken ==
    [][ /\ (ValidatingGet(last') /\ last'.status = "invalid")
           => ( /\ last'.token = None
                /\ ~exists(tokens', LastPath')
                /\ ~exists(metadata', LastPath') )
        /\ (last'.op = "AuthManager.validate_token" /\ last'.exc = "none")
           => (tokens' = tokens /\ metadata' = metadata) ]_vars

C4_Witness ==
    /\ ValidatingGet(last)
    /\ last.status = "invalid"
    /\ last.token = None

\* C5: when the probe made by AuthManager.get_token(validate=true) times
\* out, fails to connect or returns a status classified refresh_needed, the
\* stored record is not deleted and is still retrievable.
C5_TransientKeepsRecord ==
    (ValidatingGet(last) /\ last.status = "refresh_needed")
    => ( /\ exists(tokens, LastPath)
         /\ Stored(fs, last.provider, last.key_id) # None )

\* The metadata record a store holds for the last call's key
MetaOf(md) == md[LastPath'].data

\* C6: get_valid(provider, key_id, min_expiry) on a stored token: (a) an
\* expired token gives absent and the record is deleted; (b) a token that
\* is not expired but has less than min_expiry seconds left gives absent
\* and the store is unchanged; (c) otherwise the stored token is returned
\* and the store is unchanged.
C6_GetValidThreeCases ==
    [][ ( /\ last'.op = "get_valid_token"
          /\ Stored(fs, last'.provider, last'.key_id) # None )
        => LET tok == Stored(fs, last'.provider, last'.key_id)[1]
           IN /\ last'.exc = "none"
              /\ IF tok.expires_at # None /\ tok.expires_at[1] <= now
                 THEN /\ last'.token = None
                      /\ ~exists(tokens', LastPath')
                      /\ ~exists(metadata', LastPath')
                 ELSE IF /\ tok.expires_at # None
                         /\ tok.expires_at[1] - now < last'.args.min_expiry
                 THEN /\ last'.token = None
                      /\ tokens' = tokens
                      /\ metadata' = metadata
                 ELSE /\ last'.token = Some(tok)
                      /\ tokens' = tokens
                      /\ metadata' = metadata ]_vars

\* Case (b): absent is returned while the unexpired record stays stored
C6_Witness ==
    /\ last.op = "get_valid_token"
    /\ last.token = None
    /\ Stored(fs, last.provider, last.key_id) # None
    /\ ~is_expired(Stored(fs, last.provider, last.key_id)[1], now)

\* C7: save is an upsert: after save(provider, key_id, token, metadata?)
\* returns, get(provider, key_id) returns a token equal to the one saved,
\* whether or not a record existed before.
C7_SaveThenGet ==
    (last.op = "save_token" /\ last.exc = "none")
    => ( /\ get_token(fs, last.provider, last.key_id).exc = "none"
         /\ Stored(fs, last.provider, last.key_id) = last.args.token_data )

\* A save over an earlier record of the key (its metadata is older)
C7_Witness ==
    /\ last.op = "save_token"
    /\ last.exc = "none"
    /\ last.args.md = None
    /\ exists(metadata, LastPath)
    /\ metadata[LastPath].data.updated_at # isoformat(now)
    /\ Stored(fs, last.provider, last.key_id) = last.args.token_data

\* C8: created_at is set by the first save of a key and keeps that value
\* across every later save of the key, while updated_at is renewed by
\* every save, including saves made without a metadata argument.
C8_CreatedAtKeptUpdatedAtRenewed ==
    [][ (last'.op = "save_token" /\ last'.exc = "none")
        => ( /\ exists(metadata', LastPath')
             /\ MetaOf(metadata').updated_at = isoformat(now)
             /\ MetaOf(metadata').created_at =
                  IF exists(metadata, LastPath')
                  THEN MetaOf(metadata).created_at ELSE isoformat(now) ) ]_vars

C10_PatchKeepsOtherFieldsAndCreatedAt ==
    [][ ( /\ last'.op = "update_token_metadata"
          /\ last'.exc = "none"
          /\ exists(metadata, LastPath') )
        => ( /\ \A f \in (DOMAIN MetaOf(metadata)) \ (DOMAIN last'.args.patch) :
                  /\ f \in DOMAIN MetaOf(metadata')
                  /\ MetaOf(metadata')[f] = MetaOf(metadata)[f]
             /\ MetaOf(metadata').created_at = MetaOf(metadata).created_at
             /\ tokens' = tokens ) ]_vars

\* C10 as amended: fields not named in the patch, other than updated_at,
\* keep their values; every field the patch names takes the patch's value
\* (created_at too, which is kept only when the patch does not name it);
\* updated_at is set to the time of the call; the token record is unchanged.
C10_PatchMerges ==
    [][ ( /\ last'.op = "update_token_metadata"
          /\ last'.exc = "none"
          /\ exists(metadata, LastPath') )
        => ( /\ \A f \in (DOMAIN MetaOf(metadata))
                           \ ((DOMAIN last'.args.patch) \cup {"updated_at"}) :
                  /\ f \in DOMAIN MetaOf(metadata')
                  /\ MetaOf(metadata')[f] = MetaOf(metadata)[f]
             /\ \A f \in (DOMAIN last'.args.patch) \ {"updated_at"} :
                  MetaOf(metadata')[f] = last'.args.patch[f]
             /\ MetaOf(metadata').updated_at = isoformat(now)
             /\ tokens' = tokens ) ]_vars

\* A patch merged into the metadata an earlier save wrote
C10_Witness ==
    /\ last.op = "update_token_metadata"
    /\ last.exc = "none"
    /\ {"note", "auth_method", "created_at"} \subseteq DOMAIN metadata[LastPath].data
    /\ metadata[LastPath].data.created_at # metadata[LastPath].data.updated_at

\* The token files that hold an expired token
ExpiredPaths(store) ==
    { path \in DOMAIN store.tokens :
        /\ exists(store.tokens, path)
        /\ store.tokens[path] # Corrupt
        /\ is_expired(_deserialize_token(store.tokens[path].data), now) }

\* C11: cleanup_expired_tokens, run after any sequence of save /
\* update_metadata / delete calls, returns the number of stored tokens that
\* were expired when it ran; afterwards no key holds an expired token and
\* every token that was not expired is still stored unchanged.
C11_CleanupRemovesExactlyExpired ==
    [][ last'.op = "cleanup_expired_tokens"
        => ( /\ last'.exc = "none"
             /\ last'.count = Cardinality(ExpiredPaths(fs))
             /\ \A path \in DOMAIN tokens :
                  IF path \in ExpiredPaths(fs)
                  THEN ~exists(tokens', path)
                  ELSE tokens'[path] = tokens[path] ) ]_vars

\* C12: every store operation that reads a corrupted token record (get,
\* get_valid, list) deletes the record and raises the store-level error;
\* none treats the record as absent without an error.
C12_CorruptReadIsReported ==
    [][ ( \/ /\ last'.op \in {"get_token", "get_valid_token"}
             /\ exists(tokens, LastPath')
             /\ tokens[LastPath'] = Corrupt
          \/ /\ last'.op = "list_tokens"
             /\ \E path \in DOMAIN tokens :
                  path[1] = last'.provider /\ tokens[path] = Corrupt )
        => ( /\ last'.exc = "StoreError"
             /\ \A path \in DOMAIN tokens' : tokens'[path] # Corrupt ) ]_vars

\* The last step was an AuthManager call that hands back an AuthResult
AuthCall(l) == l.op \in {"authenticate", "get_auth_url", "exchange_code"}

\* C13: for every provider name the case-insensitive lookup resolves to a
\* registered vendor, an AuthManager.authenticate whose vendor call
\* succeeds returns that success, get_token(provider_name, key_id,
\* validate=false) then returns the token, the metadata records the auth
\* method, and list_tokens(provider_name) shows the key.
C13_AuthenticatePersists ==
    [][ ( /\ last'.op = "authenticate"
          /\ get_auth_provider(last'.provider) # None
          /\ authenticate(get_auth_provider(last'.provider)[1],
                          last'.input.kwargs, last'.input.probe, now).success )
        => ( /\ last'.exc = "none"
             /\ last'.result # None
             /\ last'.result[1].success
             /\ Stored(fs', last'.provider, last'.key_id) = last'.result[1].token_data
             /\ exists(metadata', LastPath')
             /\ MetaOf(metadata').auth_method = "api_key"
             /\ \E path \in DOMAIN list_tokens(fs', Some(last'.provider), now).entries :
                  list_tokens(fs', Some(last'.provider), now).entries[path].key_id
                    = last'.key_id ) ]_vars

\* C14: an AuthManager.authenticate that returns a failure result (unknown
\* provider, missing or rejected credential, timeout or any probe
\* exception) leaves the token and metadata files exactly as they were.
C14_FailureLeavesStore ==
    [][ ( /\ last'.op = "authenticate"
          /\ last'.result # None
          /\ ~last'.result[1].success )
        => ( tokens' = tokens /\ metadata' = metadata ) ]_vars

\* A rejected credential for a key that already has a record
C14_Witness ==
    /\ last.op = "authenticate"
    /\ last.result # None
    /\ last.result[1].error_code = Some("api_key_validation_failed")
    /\ exists(tokens, LastPath)
    /\ exists(metadata, LastPath)

\* C15: AuthManager.logout returns false and changes nothing when the key
\* has no token; when it has one, the token and its metadata are deleted
\* and the call returns true without raising, whether the provider's
\* logout hook succeeds or raises.
C15_LogoutDeletesLocally ==
    [][ last'.op = "logout"
        => IF Stored(fs, last'.provider, last'.key_id) = None
           THEN /\ ~last'.flag
                /\ last'.exc = "none"
                /\ tokens' = tokens /\ metadata' = metadata
           ELSE /\ last'.flag
                /\ last'.exc = "none"
                /\ ~exists(tokens', LastPath')
                /\ ~exists(metadata', LastPath') ]_vars

\* A logout of a stored key whose provider hook raised
C15_Witness ==
    /\ last.op = "logout"
    /\ last.input.probe = "raises"
    /\ get_auth_provider(last.provider) # None
    /\ last.flag

\* The status the vendors' published tables give a probe outcome
TableStatus(vendor, probe) ==
    LET valid == CASE vendor = "claude" -> {"200", "400", "429"}
                   [] OTHER -> {"200"}
        invalid == CASE vendor = "gemini" -> {"403"}
                     [] vendor = "iflow" -> {"401", "403"}
                     [] OTHER -> {"401"}
    IN IF probe \in valid THEN "valid"
       ELSE IF probe \in invalid THEN "invalid"
       ELSE "refresh_needed"

\* The last step validated a token that is not expired and not empty
ProbedToken(l) ==
    /\ l.op = "validate_token"
    /\ l.input.token_data[1].access_token # ""
    /\ ~is_expired(l.input.token_data[1], now)

\* C16 as stated: for every vendor, validate_token on a token that is not
\* expired and has a non-empty access_token gives the status of the
\* vendor's table for the probe outcome.
C16_TableForEveryToken ==
    ProbedToken(last) => last.status = TableStatus(last.provider, last.input.probe)

\* C16: the same, except that an iFlow token whose access_token is not a
\* JSON cookie mapping is never probed and gives refresh_needed.
C16_TableForProbedTokens ==
    ProbedToken(last)
    => last.status =
         IF /\ last.provider = "iflow"
            /\ last.input.token_data[1].access_token \notin JsonStrings
         THEN "refresh_needed"
         ELSE TableStatus(last.provider, last.input.probe)

\* An iFlow cookie token rejected with 403
C16_Witness ==
    /\ ProbedToken(last)
    /\ last.provider = "iflow"
    /\ last.input.token_data[1].access_token \in JsonStrings
    /\ last.input.probe = "403"
    /\ last.status = "invalid"

\* The API-key vendors
ApiKeyVendors == {"gemini", "claude", "openai", "qwen"}

\* The last step was AuthManager.authenticate for an API-key vendor with a
\* non-empty key
KeyedAuthenticate(l) ==
    /\ l.op = "authenticate"
    /\ l.provider \in ApiKeyVendors
    /\ "api_key" \in DOMAIN l.input.kwargs
    /\ l.input.kwargs.api_key # ""

C18_TransientCodeDiffers ==
    ( /\ KeyedAuthenticate(last)
      /\ last.input.probe = "500" )
    => ( /\ last.result # None
         /\ last.result[1].error_code #
              authenticate(last.provider, last.input.kwargs,
                           IF last.provider = "gemini" THEN "403" ELSE "401",
                           now).error_code )

\* A string field of an AuthResult that is set and not empty
PresentStr(opt) == opt # None /\ opt[1] # ""

\* How many of token_data, auth_url and error an AuthResult carries
Carried(r) ==
    (IF r.token_data # None THEN 1 ELSE 0)
    + (IF PresentStr(r.auth_url) THEN 1 ELSE 0)
    + (IF PresentStr(r.error) THEN 1 ELSE 0)

\* C19: every AuthResult an AuthManager auth operation returns carries
\* exactly one of token_data, auth_url and error; success=true implies
\* token_data; a redirect result has success=false and no error fields.
C19_AuthResultOneOf ==
    (AuthCall(last) /\ last.result # None)
    => ( /\ Carried(last.result[1]) = 1
         /\ last.result[1].success => last.result[1].token_data # None
         /\ PresentStr(last.result[1].auth_url)
              => ( /\ ~last.result[1].success
                   /\ last.result[1].error = None
                   /\ last.result[1].error_code = None ) )

\* An OAuth redirect result
C19_Witness ==
    /\ last.op = "get_auth_url"
    /\ last.result # None
    /\ PresentStr(last.result[1].auth_url)

\* C20: authenticate, get_auth_url and exchange_code of the AuthManager,
\* called for any of the five registered providers, return an AuthResult
\* for every input and vendor outcome; no exception escapes.
C20_NoExceptionEscapes ==
    (AuthCall(last) /\ last.provider \in AuthProviders)
    => (last.exc = "none" /\ last.result # None)

\* C21: every token record stored by AuthManager.authenticate,
\* exchange_code or the refresh path of get_token has a non-empty
\* access_token.
C21_PersistedAccessTokenNonEmpty ==
    \A p \in ProviderNames, k \in KeyIds :
        LET path == _get_token_path(p, k)
        IN (exists(tokens, path) /\ tokens[path] # Corrupt)
           => Stored(fs, p, k)[1].access_token # ""

C23_ExactPairAndReversePair ==
    /\ last.op = "translate_request"
        => last.result =
             IF last.source_format = "openai" /\ last.target_format = "gemini"
             THEN OpenAIToGemini_translate_request(last.data)
             ELSE TranslationResult_error_result(
                      "No translator found", "translator_not_found",
                      last.source_format, last.target_format)
    /\ last.op = "translate_response"
        => last.result =
             IF last.target_format = "openai" /\ last.source_format = "gemini"
             THEN OpenAIToGemini_translate_response(last.data)
             ELSE TranslationResult_error_result(
                      "No translator found", "translator_not_found",
                      last.target_format, last.source_format)

\* A response translated by the translator registered under the reverse pair
C23_Witness ==
    /\ last.op = "translate_response"
    /\ last.source_format = "gemini"
    /\ last.target_format = "openai"
    /\ last.result.success
    /\ Len(last.result.translated_data[1].choices) > 0

\* C24: for every format pair (A, B) for which translate_request(A, B, ..)
\* finds a translator, translate_response(A, B, response) finds one too,
\* for every response: it is never answered with translator_not_found.
C24_RequestPairTranslatesBack ==
    ( /\ last.op = "translate_request"
      /\ last.result.error_code # Some("translator_not_found") )
    => \A response \in TranslateInputs.responses :
          Registry_translate_response(last.source_format, last.target_format,
                                      response).error_code
            # Some("translator_not_found")

\* C25: registry translate_request and translate_response return a
\* TranslationResult for every format pair and payload; a failure carries
\* error_code translation_failed or translator_not_found, a success
\* carries translated data and no error.
C25_TranslationNeverRaises ==
    last.op \in {"translate_request", "translate_response"}
    => ( /\ DOMAIN last.result =
              {"success", "translated_data", "error", "error_code",
               "source_format", "target_format"}
         /\ IF last.result.success
            THEN /\ last.result.translated_data # None
                 /\ last.result.error = None
                 /\ last.result.error_code = None
            ELSE /\ last.result.translated_data = None
                 /\ last.result.error_code \in
                      { Some("translation_failed"), Some("translator_not_found") } )

\* A payload that is no mapping, handed to the registered translator
C25_Witness ==
    /\ last.op = "translate_request"
    /\ last.source_format = "openai" /\ last.target_format = "gemini"
    /\ last.data.py = "NoneType"
    /\ last.result.error_code = Some("translation_failed")

\* The last step translated an OpenAI chat request whose messages are
\* all mappings
ChatRequest(l) ==
    /\ l.op = "translate_request"
    /\ l.source_format = "openai" /\ l.target_format = "gemini"
    /\ contains(l.data, "messages")
    /\ \A i \in DOMAIN l.data.messages : l.data.messages[i].py = "dict"

\* C26: OpenAI->Gemini translate_request gives one content per message,
\* in order, with the text unchanged and the role user for user, model
\* for assistant and system; gpt-4o becomes gemini-1.5-flash and a model
\* outside the table becomes gemini-pro.
C26_OneContentPerMessage ==
    ChatRequest(last)
    => ( /\ last.result.success
         /\ LET messages == last.data.messages
                translated == last.result.translated_data[1]
            IN /\ Len(translated.contents) = Len(messages)
               /\ \A i \in DOMAIN messages :
                    /\ Len(translated.contents[i].parts) = 1
                    /\ "content" \in DOMAIN messages[i]
                         => translated.contents[i].parts[1].text = messages[i].content
                    /\ "role" \in DOMAIN messages[i]
                         => /\ messages[i].role = "user"
                                => translated.contents[i].role = "user"
                            /\ messages[i].role \in {"assistant", "system"}
                                => translated.contents[i].role = "model"
               /\ "model" \in DOMAIN last.data
                    => translated.model =
                         IF last.data.model = "gpt-4o"
                         THEN "gemini-1.5-flash" ELSE "gemini-pro" )

\* A system message and a user message with a model outside the table
C26_Witness ==
    /\ ChatRequest(last)
    /\ last.data.messages = << [py |-> "dict", role |-> "system", content |-> "hi"],
                               [py |-> "dict", role |-> "user", content |-> "yo"] >>
    /\ contains(last.data, "model")
    /\ last.data.model = "some-unknown-model"
    /\ last.result.translated_data[1].contents[1].role = "model"
    /\ last.result.translated_data[1].model = "gemini-pro"

\* C27: in the Gemini contents made from an OpenAI message list, a leading
\* system message followed by a user message has its text prepended to
\* that user message's text.
C27_LeadingSystemIsPrepended ==
    ( /\ last.op = "chat_completion"
      /\ Len(last.data.messages) >= 2
      /\ last.data.messages[1].role = "system"
      /\ last.data.messages[2].role = "user" )
    => ( /\ Len(last.result) >= 1
         /\ last.result[1].role = "user"
         /\ last.result[1].parts[1].text =
              last.data.messages[1].content \o "\n\n"
                \o last.data.messages[2].content )

\* The last step translated a Gemini response that is a mapping
GeminiResponse(l) ==
    /\ l.op = "translate_response"
    /\ l.source_format = "gemini" /\ l.target_format = "openai"
    /\ l.data.py = "dict"

\* C28: translate_response gives one choice per text part of every
\* candidate, in order, with indices 0..n-1, role assistant, the part's
\* text as content and the candidate's finishReason; the usage counters
\* are promptTokenCount, candidatesTokenCount and totalTokenCount, 0 when
\* missing.
C28_ChoicesAndUsage ==
    GeminiResponse(last)
    => ( /\ last.result.success
         /\ LET cands == IF "candidates" \in DOMAIN last.data
                         THEN last.data.candidates ELSE <<>>
                TextParts == UNION { { <<i, j>> :
                                j \in { k \in DOMAIN cands[i].content.parts :
                                          "text" \in DOMAIN cands[i].content.parts[k] } } :
                                i \in { c \in DOMAIN cands :
                                          "content" \in DOMAIN cands[c] } }
                Rank(q) == 1 + Cardinality({ r \in TextParts :
                                \/ r[1] < q[1]
                                \/ r[1] = q[1] /\ r[2] < q[2] })
                choices == last.result.translated_data[1].choices
                usage == last.result.translated_data[1].usage
                counts == IF "usageMetadata" \in DOMAIN last.data
                          THEN last.data.usageMetadata ELSE EmptyDict
            IN /\ Len(choices) = Cardinality(TextParts)
               /\ \A q \in TextParts :
                    /\ choices[Rank(q)].index = Rank(q) - 1
                    /\ choices[Rank(q)].message =
                         [role |-> "assistant",
                          content |-> cands[q[1]].content.parts[q[2]].text]
                    /\ "finishReason" \in DOMAIN cands[q[1]]
                         => choices[Rank(q)].finish_reason = cands[q[1]].finishReason
               /\ usage.prompt_tokens =
                    (IF "promptTokenCount" \in DOMAIN counts
                     THEN counts.promptTokenCount ELSE 0)
               /\ usage.completion_tokens =
                    (IF "candidatesTokenCount" \in DOMAIN counts
                     THEN counts.candidatesTokenCount ELSE 0)
               /\ usage.total_tokens =
                    (IF "totalTokenCount" \in DOMAIN counts
                     THEN counts.totalTokenCount ELSE 0) )

\* The response {candidates: [one part "hello"], usage total 4}
C28_Witness ==
    /\ GeminiResponse(last)
    /\ contains(last.data, "candidates")
    /\ last.data.candidates =
         << [content |-> [parts |-> << [text |-> "hello"] >>], finishReason |-> "STOP"] >>
    /\ contains(last.data, "usageMetadata")
    /\ Len(last.result.translated_data[1].choices) = 1
    /\ last.result.translated_data[1].choices[1].message.content = "hello"
    /\ last.result.translated_data[1].usage.total_tokens = 4

\* C29: when AuthManager.get_token refreshes a stored token of an API-key
\* vendor, the refresh does not fail and the refreshed token carries the
\* access_token of the token that was stored, a renewed issued_at and no
\* expiry.
C29_RefreshReissuesSameCredential ==
    [][ ( /\ ValidatingGet(last')
          /\ last'.provider \in ApiKeyVendors
          /\ last'.status = "expired"
          /\ last'.caught = "none"
          /\ Stored(fs, last'.provider, last'.key_id) # None
          /\ truthy(Stored(fs, last'.provider, last'.key_id)[1].refresh_token) )
        => ( /\ last'.token # None
             /\ last'.token[1].access_token =
                  Stored(fs, last'.provider, last'.key_id)[1].access_token
             /\ last'.token[1].issued_at = Some(now)
             /\ last'.token[1].expires_at = None ) ]_vars

\* C30: the headers built from a token follow the vendor's scheme: Claude
\* has the key in x-api-key, an anthropic-version, and no bearer
\* Authorization header; Gemini has the key in x-goog-api-key; OpenAI and
\* Qwen have "Authorization: Bearer <key>"; iFlow has a Cookie header for
\* every iFlow token.
C30_VendorHeaderScheme ==
    ( /\ last.op = "get_default_headers"
      /\ last.input.token_data[1].token_type =
           (IF last.provider = "iflow" THEN "Cookie" ELSE "Bearer") )
    => LET headers == last.result[1]
           key == last.input.token_data[1].access_token
       IN CASE last.provider = "claude" ->
                 /\ "x-api-key" \in DOMAIN headers
                 /\ headers["x-api-key"] = key
                 /\ "anthropic-version" \in DOMAIN headers
                 /\ ~ ( /\ "Authorization" \in DOMAIN headers
                        /\ headers["Authorization"] = "Bearer " \o key )
            [] last.provider = "gemini" ->
                 /\ "x-goog-api-key" \in DOMAIN headers
                 /\ headers["x-goog-api-key"] = key
            [] last.provider \in {"openai", "qwen"} ->
                 /\ "Authorization" \in DOMAIN headers
                 /\ headers["Authorization"] = "Bearer " \o key
            [] last.provider = "iflow" ->
                 "Cookie" \in DOMAIN headers

\* ------------------------------------------- store partitions and names
\* Provider names a caller may use for a record: a registered vendor, a
\* letter-case variant of it, and the two store partitions that have no
\* auth provider.
PartitionNames == {"gemini", "Gemini", "codex", "vertex"}

\* StoreManager.save_token called with one of the names
PartitionSaveToken ==
    \E p \in PartitionNames, tok \in SaveTokens(now) :
        Call("save_token", p, K1, [NoArgs EXCEPT !.token_data = Some(tok)],
             save_token(fs, p, K1, tok, None, "none", now))

\* AuthManager.get_token(validate=true) called with one of the names
PartitionGetToken ==
    \E p \in PartitionNames, probe \in Probes :
        Call("AuthManager.get_token", p, K1, [NoArgs EXCEPT !.validate = TRUE],
             AuthManager_get_token(fs, p, K1, TRUE, probe, "none", now))

PartitionNext ==
    \/ Tick
    \/ PartitionSaveToken
    \/ PartitionGetToken

SpecPartition == Init /\ [][PartitionNext]_vars

\* C36: AuthManager.get_token(validate=true) never returns a token whose
\* is_expired() is true, whatever provider name the record is stored under
\* (registered vendors, letter-case variants, partitions codex and vertex).
C36_NeverReturnsExpired ==
    (/\ last.op = "AuthManager.get_token"
     /\ last.args.validate
     /\ last.token # None)
    => ~is_expired(last.token[1], now)

\* The last step was AuthManager.exchange_code for an OAuth-capable vendor
OAuthExchange(l) ==
    /\ l.op = "exchange_code"
    /\ l.provider \in OAuthVendors

\* C32 as stated: a non-200 answer gives a failure and leaves the store
\* unchanged; every 200 answer gives success and stores the token.
C32_Every200Succeeds ==
    [][ OAuthExchange(last')
        => IF last'.input.probe # "200"
           THEN /\ ~last'.result[1].success
                /\ tokens' = tokens /\ metadata' = metadata
           ELSE /\ last'.result[1].success
                /\ Stored(fs', last'.provider, last'.key_id)
                     = last'.result[1].token_data ]_vars

\* C32: a non-200 answer, and a 200 answer whose body does not parse or
\* has no access_token, give a failure and leave the store unchanged; a
\* 200 answer with an access_token gives success and stores under
\* (provider, key_id) a token with expires_at = now + expires_in, 3600
\* seconds when expires_in is omitted, and the vendor's refresh_token.
C32_ExchangePersistsToken ==
    [][ OAuthExchange(last')
        => IF \/ last'.input.probe # "200"
              \/ last'.input.body = None
              \/ "access_token" \notin DOMAIN last'.input.body[1]
           THEN /\ last'.result # None
                /\ ~last'.result[1].success
                /\ tokens' = tokens /\ metadata' = metadata
           ELSE /\ last'.result # None
                /\ last'.result[1].success
                /\ Stored(fs', last'.provider, last'.key_id)
                     = last'.result[1].token_data
                /\ LET body == last'.input.body[1]
                       token == Stored(fs', last'.provider, last'.key_id)[1]
                   IN /\ token.access_token = body.access_token
                      /\ token.expires_at =
                           Some(now + (IF "expires_in" \in DOMAIN body
                                       THEN body.expires_in ELSE 3600))
                      /\ token.refresh_token =
                           (IF "refresh_token" \in DOMAIN body
                            THEN Some(body.refresh_token) ELSE None) ]_vars

\* A token response without expires_in, stored with the default lifetime
C32_Witness ==
    /\ OAuthExchange(last)
    /\ last.input.body = Some([access_token |-> "at"])
    /\ last.result[1].success
    /\ Stored(fs, last.provider, last.key_id)[1].expires_at = Some(now + 3600)

\* C37: for every provider and distinct key_ids k1 # k2, save_token,
\* delete_token and update_token_metadata on (p, k1) leave the token
\* get_token(p, k2) returns and the metadata of (p, k2) unchanged.
C37_KeysIsolated ==
    [][ last'.op \in {"save_token", "delete_token", "update_token_metadata"}
        => \A k2 \in KeyIds \ {last'.key_id} :
             /\ Stored(fs', last'.provider, k2) = Stored(fs, last'.provider, k2)
             /\ metadata'[_get_token_path(last'.provider, k2)]
                  = metadata[_get_token_path(last'.provider, k2)] ]_vars

\* C38: after any completed sequence of store operations a metadata record
\* exists only if a token record exists for the same key: there is no
\* orphan metadata.
C38_NoOrphanMetadata ==
    \A path \in Paths : exists(metadata, path) => exists(tokens, path)

\* C35: metadata never decides validity.  The store as it is and a store
\* with the same token records but no metadata records give the same
\* results of get_token, get_valid_token, AuthManager.get_token and
\* cleanup_expired_tokens, and are left with identical token records.
C35_MetadataIsAdvisory ==
    LET bare == [tokens |-> tokens,
                 metadata |-> [path \in DOMAIN metadata |-> NoFile]]
        same(a, b) == a.token = b.token /\ a.exc = b.exc /\ a.tokens = b.tokens
    IN /\ \A p \in ProviderNames, k \in CleanupKeyIds :
            /\ same(get_token(fs, p, k), get_token(bare, p, k))
            /\ same(get_valid_token(fs, p, k, 0, now),
                    get_valid_token(bare, p, k, 0, now))
            /\ same(AuthManager_get_token(fs, p, k, TRUE, "200", "none", now),
                    AuthManager_get_token(bare, p, k, TRUE, "200", "none", now))
       /\ \A order \in Orders({path \in DOMAIN tokens : exists(tokens, path)}) :
            LET a == cleanup_expired_tokens(fs, order, now)
                b == cleanup_expired_tokens(bare, order, now)
            IN a.count = b.count /\ a.exc = b.exc /\ a.tokens = b.tokens

\* C31 as stated: a provider with at least one recorded request always has
\* the status its success rate classifies to (healthy from 95%, degraded
\* from 80%, else unhealthy) and total_requests = successful + failed.
C31_StatusIsAlwaysClassification ==
    last.stats.total_requests >= 1
    => /\ last.stats.status =
            (IF last.stats.successful_requests * 100
                  >= 95 * last.stats.total_requests THEN "healthy"
             ELSE IF last.stats.successful_requests * 100
                  >= 80 * last.stats.total_requests THEN "degraded"
             ELSE "unhealthy")
       /\ last.stats.total_requests
            = last.stats.successful_requests + last.stats.failed_requests

\* C31: total_requests = successful + failed at all times; every recorded
\* request leaves the status at the classification of the success rate,
\* and a provider with at least one recorded request has that status
\* unless it has been shut down since, which leaves it offline.
C31_StatusClassifiedUnlessOffline ==
    LET classified ==
          IF last.stats.successful_requests * 100
               >= 95 * last.stats.total_requests THEN "healthy"
          ELSE IF last.stats.successful_requests * 100
               >= 80 * last.stats.total_requests THEN "degraded"
          ELSE "unhealthy"
    IN /\ last.stats.total_requests
            = last.stats.successful_requests + last.stats.failed_requests
       /\ last.op \in {"chat_completion.return", "chat_completion.raise"}
            => last.stats.status = classified
       /\ last.stats.total_requests >= 1
            => \/ last.stats.status = classified
               \/ last.stats.status = "offline" /\ ~last.registered

\* Nineteen successes in twenty requests: exactly 95%, healthy
C31_Witness ==
    /\ last.op = "chat_completion.raise"
    /\ last.stats.total_requests = 20
    /\ last.stats.successful_requests = 19
    /\ last.stats.status = "healthy"

PersistedBy(store, provider, key_id) ==
    LET path == _get_token_path(provider, key_id)
    IN IF exists(store.metadata, path) /\ store.metadata[path] # Corrupt
          /\ "auth_method" \in DOMAIN store.metadata[path].data
       THEN store.metadata[path].data.auth_method
       ELSE "none"

\* C39: every token AuthManager.authenticate persists has no
\* refresh_token; once such a token is expired, get_token(validate=true)
\* deletes it and returns absent; and a get_token that refreshes an
\* expired token only ever does so for a record exchange_code persisted.
C39_OnlyExchangedTokensRefresh ==
    [][ /\ ( /\ last'.op = "authenticate"
             /\ last'.result # None
             /\ last'.result[1].success )
           => /\ Stored(fs', last'.provider, last'.key_id) # None
              /\ Stored(fs', last'.provider, last'.key_id)[1].refresh_token = None
        /\ ( /\ last'.op = "AuthManager.get_token"
             /\ Stored(fs, last'.provider, last'.key_id) # None
             /\ is_expired(Stored(fs, last'.provider, last'.key_id)[1], now)
             /\ PersistedBy(fs, last'.provider, last'.key_id) # "oauth" )
           => /\ last'.token = None
              /\ Stored(fs', last'.provider, last'.key_id) = None
        /\ ( /\ last'.op = "AuthManager.get_token"
             /\ last'.status = "expired"
             /\ last'.token # None )
           => PersistedBy(fs, last'.provider, last'.key_id) = "oauth" ]_vars

\* An iFlow cookie token that authenticate stored, found expired a week
\* later and deleted
C39_Witness ==
    /\ last.op = "AuthManager.get_token"
    /\ last.provider = "iflow"
    /\ last.status = "expired"
    /\ last.token = None
    /\ PersistedBy(fs, "iflow", K1) = "none"
    /\ Stored(fs, "iflow", K1) = None

\* Both calls have returned or raised
BothDone == \A c \in 1..2 : last.calls[c].pc = "done"

C34_ReturnedTokenStaysStored ==
    ( /\ BothDone
      /\ \E c \in 1..2 : last.calls[c].returned # None )
    => Stored(fs, "gemini", K1) # None

====
